---- MODULE Spec2Model ----
(***************************************************************************)
(* Model of the Acoem NE-300 / Aurora 3000 nephelometer driver             *)
(* (src/mkndaq/inst/neph.py, class NEPH): the ACOEM wire protocol codecs   *)
(* (checksum, packed timestamp, frame builder, response decoders) and the  *)
(* session operations that exchange frames with the instrument.            *)
(*                                                                         *)
(* Bytes objects are sequences of 0..255, Python str objects sequences of  *)
(* one-character strings.  Python ints are unbounded while TLC's are       *)
(* 32-bit, so a packed timestamp (up to 2^32-1) is carried as the pair     *)
(* <<n \div 2^16, n % 2^16>>; every other int stays below 2^31.            *)
(***************************************************************************)
EXTENDS Integers, Sequences, FiniteSets, TLC

VARIABLES
    serial_id,  \* self.__serial_id, the station address of the instrument
    protocol,   \* self.__protocol, "acoem" or "legacy"; "unset" when the
                \* configured protocol is neither and the attribute is not set
    fn,         \* the function or operation that was called ("none" before)
    arg,        \* its argument
    ret,        \* what it returned (no_result while it runs)
    pc,         \* where the session is: "init" (in the constructor, before
                \* its get_id call), "idle", "set_connect", "set_send",
                \* "tcpip_comm" (inside the exchange), "returned" (after it)
                \* or "raised" (an exception left the operation)
    step,       \* the number of exchanges the operation has completed
    acc,        \* the operation's local results so far
    err,        \* the last exception caught and logged during the operation
    tcp,        \* where tcpip_comm is: "connect", "clear", "send", "recv"
    comm_msg,   \* tcpip_comm's argument `message`
    rcvd,       \* tcpip_comm's receive buffer
    comm_ret,   \* what tcpip_comm returned
    wire,       \* the chunks the instrument has yet to deliver on the socket
    peer,       \* what the instrument does after them: "open" or "closed"
    sent,       \* the messages handed to a socket during the operation
    polls,      \* iterations of set_current_operation's polling loop
    conns,      \* the number of connected sockets the session holds
    _log,       \* 'logs' in config: self._log is True (it is not set otherwise)
    heard,      \* history: what the transport and the instrument did at each
                \* socket call of the get_id call in progress
    init_report,\* "running" inside the constructor; then what the constructor
                \* reported after its get_id call, "Warning" (could not
                \* communicate) or "none"; "none" once an operation was called
    last_id,    \* history: <<heard, result>> of the get_id call that returned
                \* last, <<>> once another operation has been called
    class_attrs,\* the attributes of the driver classes NEPH, AE33 and TEI49C
    objects,    \* the driver instances constructed so far, each with its
                \* class and its own attributes
    data_begin_read_id, \* AE33: self.__data_begin_read_id (0 is None)
    datafile,   \* AE33: the time bin in the name of self.__datafile (0 is None)
    file_to_stage,  \* AE33: likewise for self.__file_to_stage
    staging,    \* AE33: self.__staging is set (it is None otherwise)
    zip,        \* AE33: self.__zip
    now,        \* the time bin the wall clock is in
    table_maxid,\* the largest id in the instrument's Data table
    written,    \* the data files that exist (their time bins)
    staged,     \* history: the files copied or zipped into the staging area
    late,       \* history: the files appended to after they were staged
    fetched,    \* history: the id ranges <<begin, maxid>> of the FETCH commands
    retrieved,  \* history: the ids of the records a FETCH reply delivered
    local_files,    \* SFTP: the size of each file under local_path (-1: none)
    remote_files,   \* SFTP: the size of each file on the remote host
    walk,       \* SFTP: the files transfer_files has yet to put
    remove_on_success,  \* SFTP: the argument of the transfer_files call
    last_put    \* history: the file, the outcome and the sizes of the last put

session_vars ==
    <<protocol, pc, step, acc, err, tcp, comm_msg, rcvd, comm_ret, wire, peer,
      sent, polls, conns, _log, heard, last_id, init_report>>

driver_vars == <<class_attrs, objects>>

ae33_vars ==
    <<data_begin_read_id, datafile, file_to_stage, staging, zip, now,
      table_maxid, written, staged, late, fetched, retrieved>>

sftp_vars == <<local_files, remote_files, walk, remove_on_success, last_put>>

(* the state outside the NEPH session *)
elsewhere == <<driver_vars, ae33_vars, sftp_vars>>

neph_vars == <<serial_id, fn, arg, ret, session_vars>>

outside_drivers == <<neph_vars, ae33_vars, sftp_vars>>
outside_ae33 == <<neph_vars, driver_vars, sftp_vars>>
outside_sftp == <<neph_vars, driver_vars, ae33_vars>>

vars == <<neph_vars, elsewhere>>

Byte == 0..255

Min(a, b) == IF a < b THEN a ELSE b
Max(a, b) == IF a > b THEN a ELSE b

(* Python's s[i:j] for 0 <= i, with j clipped to the length (j < 0 is 0).  *)
(* F applied to the value of an expression that is evaluated once *)
Bind(value, F(_)) == CHOOSE result \in {F(v) : v \in {value}} : TRUE

Slice(s, i, j) ==
    LET lo == Min(Max(i, 0), Len(s))
        hi == Min(Max(j, 0), Len(s))
    IN  IF lo >= hi THEN <<>> ELSE SubSeq(s, lo + 1, hi)

(* a ^ b on two bytes, bit by bit *)
XorBit(a, b, w) == ((((a \div w) % 2) + ((b \div w) % 2)) % 2) * w

Xor(a, b) ==
    CASE a \in Byte /\ b \in Byte ->
        XorBit(a, b, 1) + XorBit(a, b, 2) + XorBit(a, b, 4) + XorBit(a, b, 8)
            + XorBit(a, b, 16) + XorBit(a, b, 32) + XorBit(a, b, 64) + XorBit(a, b, 128)

(* int.to_bytes(length) (big-endian, unsigned): OverflowError unless       *)
(* 0 <= n < 256^length.                                                    *)
to_bytes_ok(n, length) == n >= 0 /\ (length >= 4 \/ n < 256 ^ length)

to_bytes(n, length) == [i \in 1..length |-> (n \div (256 ^ (length - i))) % 256]

(* int.from_bytes(b) (big-endian, unsigned); 0 for the empty bytes.        *)
from_bytes(b) ==
    LET value[i \in 0..Len(b)] == IF i = 0 THEN 0 ELSE value[i - 1] * 256 + b[i]
    IN  value[Len(b)]

(* int.from_bytes of at most 4 bytes as the pair <<high 16 bits, low 16>>. *)
from_bytes_wide(b) ==
    LET n == Len(b)
    IN  <<from_bytes(Slice(b, 0, n - 2)), from_bytes(Slice(b, n - 2, n))>>

----------------------------------------------------------------------------
(* NEPH._checksum: XOR of the bytes from left to right, starting from 0;   *)
(* the result is a bytes object of length 1.                               *)

(* checksum_prefix(x)[i] is cs after the first i bytes of the loop         *)
(* `cs = 0; for i in range(len(x)): cs = cs ^ x[i]`.                       *)
(* (the previous value is bound once, then XORed with the next byte)       *)
checksum_sum_prefix(x) ==
    LET cs[i \in 0..Len(x)] ==
            IF i = 0 THEN 0
            ELSE CHOOSE next \in {(prev + x[i]) % 256 : prev \in {cs[i - 1]}} : TRUE
    IN  cs

checksum_prefix(x) ==
    LET cs[i \in 0..Len(x)] ==
            IF i = 0 THEN 0
            ELSE CHOOSE next \in {Xor(prev, x[i]) : prev \in {cs[i - 1]}} : TRUE
    IN  cs

_checksum(x) == <<checksum_prefix(x)[Len(x)]>>

----------------------------------------------------------------------------
(* datetime.datetime(yyyy, mm, dd, HH, MM, SS): ValueError unless the      *)
(* fields are a calendar date-time.                                        *)

IsLeap(y) == (y % 4 = 0) /\ ((y % 100 # 0) \/ (y % 400 = 0))

DaysInMonth(y, m) ==
    IF m = 2 THEN (IF IsLeap(y) THEN 29 ELSE 28)
    ELSE IF m \in {4, 6, 9, 11} THEN 30 ELSE 31

datetime_ok(yyyy, mm, dd, HH, MM, SS) ==
    /\ yyyy \in 1..9999
    /\ mm \in 1..12
    /\ dd >= 1 /\ dd <= DaysInMonth(yyyy, mm)
    /\ HH \in 0..23
    /\ MM \in 0..59
    /\ SS \in 0..59

datetime(yyyy, mm, dd, HH, MM, SS) ==
    [year |-> yyyy, month |-> mm, day |-> dd,
     hour |-> HH, minute |-> MM, second |-> SS]

(* NEPH._acoem_timestamp_to_datetime, timestamp = <<hi, lo>> standing for  *)
(* hi * 2^16 + lo.  SS = timestamp % 64 and timestamp // 64 are taken on   *)
(* the pair; the quotient is below 2^26 and the rest is plain arithmetic.  *)
timestamp_fields(timestamp) ==
    LET SS   == timestamp[2] % 64
        dtm1 == timestamp[1] * 1024 + (timestamp[2] \div 64)
        MM   == dtm1 % 64
        dtm2 == dtm1 \div 64
        HH   == dtm2 % 32
        dtm3 == dtm2 \div 32
        dd   == dtm3 % 32
        dtm4 == dtm3 \div 32
        mm   == dtm4 % 16
        yyyy == (dtm4 \div 16) + 2000
    IN  <<yyyy, mm, dd, HH, MM, SS>>

(* the except branch returns datetime.datetime(1111, 1, 1): the caller     *)
(* gets a date-time value and sees no exception.                           *)
_acoem_timestamp_to_datetime(timestamp) ==
    Bind(timestamp_fields(timestamp),
         LAMBDA f :
             IF datetime_ok(f[1], f[2], f[3], f[4], f[5], f[6])
             THEN [exc |-> "none", val |-> datetime(f[1], f[2], f[3], f[4], f[5], f[6])]
             ELSE [exc |-> "none", val |-> datetime(1111, 1, 1, 0, 0, 0)])

----------------------------------------------------------------------------
(* Python string helpers used by NEPH._acoem_datetime_to_timestamp.        *)

(* the binary digits of n >= 0, most significant first, no leading zero    *)
bit_length(n) == CHOOSE k \in 1..31 : n < 2 ^ k /\ (k = 1 \/ n >= 2 ^ (k - 1))

BinDigits(n) ==
    [i \in 1..bit_length(n) |->
        IF (n \div (2 ^ (bit_length(n) - i))) % 2 = 1 THEN "1" ELSE "0"]

(* bin(n): "0b..." or "-0b..." *)
bin(n) ==
    IF n < 0 THEN <<"-", "0", "b">> \o BinDigits(0 - n)
    ELSE <<"0", "b">> \o BinDigits(n)

Zeros(k) == [i \in 1..k |-> "0"]

(* str.zfill(width): zeros on the left, after a leading sign.              *)
zfill(str, width) ==
    IF Len(str) >= width THEN str
    ELSE IF str # <<>> /\ str[1] \in {"+", "-"}
         THEN <<str[1]>> \o Zeros(width - Len(str)) \o Slice(str, 1, Len(str))
         ELSE Zeros(width - Len(str)) \o str

(* int(str, base=2): an optional sign, an optional "0b", then one or more  *)
(* binary digits; anything else is a ValueError.                           *)
int2_unsigned(str) ==
    IF str # <<>> /\ str[1] \in {"+", "-"} THEN Slice(str, 1, Len(str)) ELSE str

int2_digits(str) ==
    LET u == int2_unsigned(str)
    IN  IF Len(u) >= 2 /\ u[1] = "0" /\ u[2] \in {"b", "B"}
        THEN Slice(u, 2, Len(u)) ELSE u

int2_ok(str) ==
    LET d == int2_digits(str)
    IN  d # <<>> /\ \A i \in 1..Len(d) : d[i] \in {"0", "1"}

int2_negative(str) ==
    /\ str # <<>> /\ str[1] = "-"
    /\ \E i \in 1..Len(int2_digits(str)) : int2_digits(str)[i] = "1"

StripZeros(d) ==
    LET ones == {i \in 1..Len(d) : d[i] # "0"}
    IN  IF ones = {} THEN <<>>
        ELSE SubSeq(d, CHOOSE i \in ones : \A j \in ones : i <= j, Len(d))

BitsValue(d) ==
    LET value[i \in 0..Len(d)] ==
            IF i = 0 THEN 0 ELSE value[i - 1] * 2 + (IF d[i] = "1" THEN 1 ELSE 0)
    IN  value[Len(d)]

(* (int(str, base=2)).to_bytes(4) for a non-negative value given by its    *)
(* binary digits: OverflowError above 32 significant bits.                 *)
bits_to_bytes4_ok(d) == Len(StripZeros(d)) <= 32

bits_to_bytes4(d) ==
    Bind(Zeros(32 - Len(StripZeros(d))) \o StripZeros(d),
         LAMBDA s32 :
             <<BitsValue(SubSeq(s32, 1, 8)), BitsValue(SubSeq(s32, 9, 16)),
               BitsValue(SubSeq(s32, 17, 24)), BitsValue(SubSeq(s32, 25, 32))>>)

(* NEPH._acoem_datetime_to_timestamp: the year field is bin(year - 2000)   *)
(* with its "0b" prefix kept (the other five fields drop it), zero-filled  *)
(* to 6 characters; every exception ends in the empty bytes b''.           *)
timestamp_string(dtm) ==
    LET SS   == zfill(Slice(bin(dtm.second), 2, 99), 6)
        MM   == zfill(Slice(bin(dtm.minute), 2, 99), 6)
        HH   == zfill(Slice(bin(dtm.hour), 2, 99), 5)
        dd   == zfill(Slice(bin(dtm.day), 2, 99), 5)
        mm   == zfill(Slice(bin(dtm.month), 2, 99), 4)
        yyyy == zfill(bin(dtm.year - 2000), 6)
    IN  yyyy \o mm \o dd \o HH \o MM \o SS

_acoem_datetime_to_timestamp(dtm) ==
    Bind(timestamp_string(dtm),
         LAMBDA str :
             IF int2_ok(str) /\ ~int2_negative(str) /\ bits_to_bytes4_ok(int2_digits(str))
             THEN bits_to_bytes4(int2_digits(str))
             ELSE <<>>)

----------------------------------------------------------------------------
(* NEPH._acoem_construct_message:                                          *)
(*   |STX|SID|CMD|ETX|msg_len (2 bytes)|msg_data|checksum|EOT|             *)
(* bytes([...]) raises ValueError outside 0..255 and to_bytes raises       *)
(* OverflowError; the function has no handler of its own.                  *)

construct_msg_data(parameter_id, payload) ==
    (IF parameter_id > 0 THEN to_bytes(parameter_id, 4) ELSE <<>>)
        \o (IF Len(payload) > 0 THEN payload ELSE <<>>)

construct_message_raises(command, parameter_id, payload) ==
    \/ (parameter_id > 0 /\ ~to_bytes_ok(parameter_id, 4))
    \/ ~to_bytes_ok(Len(construct_msg_data(parameter_id, payload)), 2)
    \/ serial_id \notin Byte
    \/ command \notin Byte

(* the frame with its length field written low byte first                 *)
construct_message_length_le(command, parameter_id, payload) ==
    LET msg_data == construct_msg_data(parameter_id, payload)
        msg_len  == Len(msg_data)
        msg      == <<2, serial_id, command, 3>>
                        \o <<msg_len % 256, msg_len \div 256>> \o msg_data
    IN  msg \o _checksum(msg) \o <<4>>

_acoem_construct_message(command, parameter_id, payload) ==
    LET msg_data == construct_msg_data(parameter_id, payload)
        msg_len  == Len(msg_data)
        msg      == <<2, serial_id, command, 3>> \o to_bytes(msg_len, 2) \o msg_data
    IN  msg \o _checksum(msg) \o <<4>>

(* NEPH._acoem_decode_response: the length field counts bytes, a quarter   *)
(* of it is the number of 4-byte items read from offset 6.  Nothing is     *)
(* validated; a slice beyond the end is shorter or empty.                  *)
(* a decoder that drops a response whose checksum byte is wrong            *)
decode_response_validating(response) ==
    LET response_length == from_bytes(Slice(response, 4, 6)) \div 4
    IN  IF Slice(response, Len(response) - 2, Len(response) - 1)
               = _checksum(Slice(response, 0, Len(response) - 2))
        THEN [k \in 1..response_length |->
                 from_bytes(Slice(response, 6 + 4 * (k - 1), 6 + 4 * k))]
        ELSE <<>>

decode_response_words(response) ==
    LET response_length == from_bytes(Slice(response, 4, 6))
    IN  [k \in 1..response_length |->
            from_bytes(Slice(response, 6 + 4 * (k - 1), 6 + 4 * k))]

_acoem_decode_response(response) ==
    LET response_length == from_bytes(Slice(response, 4, 6)) \div 4
    IN  [k \in 1..response_length |->
            from_bytes(Slice(response, 6 + 4 * (k - 1), 6 + 4 * k))]

----------------------------------------------------------------------------
(* NEPH._acoem_decode_logged_data.  A dict of logged values is the record  *)
(* [params, dtm, logging_interval]: params maps the integer keys to their  *)
(* values, dtm and logging_interval are <<>> while the key is absent.      *)

dict_empty == [params |-> <<>>, dtm |-> <<>>, logging_interval |-> <<>>]

(* struct.unpack('>f', v)[0]: the float whose IEEE-754 bits are the four   *)
(* bytes of v; struct.error for any other length.                          *)
unpack_f_ok(v) == Len(v) = 4

unpack_f(v) == [kind |-> "float", bits |-> v]

bytes_empty == [kind |-> "bytes", bits |-> <<>>]

DecDigits(n, width) == [i \in 1..width |-> (n \div (10 ^ (width - i))) % 10]

(* datetime.strftime('%Y%m%d%H%M%S') as its 14 decimal digits              *)
strftime(dtm) ==
    DecDigits(dtm.year, 4) \o DecDigits(dtm.month, 2) \o DecDigits(dtm.day, 2)
        \o DecDigits(dtm.hour, 2) \o DecDigits(dtm.minute, 2) \o DecDigits(dtm.second, 2)

(* records[i]: the slice stops one byte before the end of the record       *)
logged_record(response_body, items_per_record, i) ==
    Slice(response_body, i * items_per_record * 4, (i + 1) * (items_per_record * 4) - 1)

record_words(rec) ==
    LET number_of_fields == from_bytes(Slice(rec, 12, 16))
    IN  [j \in 1..number_of_fields |-> Slice(rec, 16 + (j - 1) * 4, 16 + j * 4)]

(* dict(zip(keys, values)): a repeated key keeps its last value            *)
dict_zip(keys, values) ==
    LET n == Min(Len(keys), Len(values))
    IN  [k \in {keys[j] : j \in 1..n} |->
            values[CHOOSE j \in 1..n :
                       keys[j] = k /\ \A j2 \in (j + 1)..n : keys[j2] # k]]

data_record_raises(keys, rec) ==
    Bind(dict_zip(keys, record_words(rec)),
         LAMBDA zipped :
             \E k \in DOMAIN zipped :
                 k > 1000 /\ Len(zipped[k]) > 0 /\ ~unpack_f_ok(zipped[k]))

data_record(keys, rec) ==
    [params |-> Bind(dict_zip(keys, record_words(rec)),
                     LAMBDA zipped :
                         [k \in DOMAIN zipped |->
                             IF k > 1000 /\ Len(zipped[k]) > 0
                             THEN unpack_f(zipped[k]) ELSE bytes_empty]),
     dtm |-> Bind(_acoem_timestamp_to_datetime(from_bytes_wide(Slice(rec, 4, 8))).val,
                  LAMBDA dtm : strftime(dtm)),
     logging_interval |-> <<from_bytes(Slice(rec, 8, 12))>>]

(* the loop over the records: `keys` and `data` are carried from record to *)
(* record and `data` is appended to `all` once per record of any type.     *)
(* decode_record is one pass of the loop body on the loop's variables.     *)
decode_record(loop, rec) ==
    IF loop.exc # "none" THEN loop
    ELSE IF rec = <<>> THEN [loop EXCEPT !.exc = "IndexError"]
    ELSE IF rec[1] = 1
         THEN [loop EXCEPT
                  !.keys = [j \in 1..Len(record_words(rec)) |->
                               from_bytes(record_words(rec)[j])],
                  !.all = Append(loop.all, loop.data)]
    ELSE IF rec[1] = 0
         THEN IF data_record_raises(loop.keys, rec)
              THEN [loop EXCEPT !.exc = "struct.error"]
              ELSE Bind(data_record(loop.keys, rec),
                        LAMBDA data : [loop EXCEPT !.data = data,
                                                   !.all = Append(loop.all, data)])
    ELSE [loop EXCEPT !.all = Append(loop.all, loop.data)]

(* loop[i]: the loop's variables after the first i records (each pass is   *)
(* applied to the values the pass before left)                             *)
decode_records(records) ==
    LET loop[i \in 0..Len(records)] ==
            IF i = 0
            THEN [keys |-> <<>>, data |-> dict_empty, all |-> <<dict_empty>>,
                  exc |-> "none"]
            ELSE CHOOSE next \in {decode_record(prev, rec) :
                                     prev \in {loop[i - 1]}, rec \in {records[i]}} : TRUE
        last == loop[Len(records)]
    IN  IF last.exc = "none" THEN [exc |-> "none", val |-> last.all]
        ELSE [exc |-> last.exc, val |-> <<>>]

_acoem_decode_logged_data(response) ==
    IF Len(response) < 3 THEN [exc |-> "IndexError", val |-> <<>>]
    ELSE IF response[3] = 7
    THEN LET message_length    == from_bytes(Slice(response, 4, 6)) \div 4
             response_body     == Slice(response, 6, Len(response) - 2)
             fields_per_record == from_bytes(Slice(response_body, 12, 16))
             items_per_record  == fields_per_record + 4
             number_of_records == message_length \div items_per_record
             records == [i \in 1..number_of_records |->
                            logged_record(response_body, items_per_record, i - 1)]
         IN  decode_records(records)
    ELSE [exc |-> "none", val |-> <<dict_empty>>]

----------------------------------------------------------------------------
(* The instrument's side of the wire: frames as the ACOEM manual lays them *)
(* out (the layout documented in _acoem_construct_message), and the        *)
(* records of a "get logged data" reply as _acoem_decode_logged_data reads *)
(* them: type byte, timestamp, logging interval, field count, then slots.  *)

(* bit w of the XOR of all bytes of s: the parity of the bytes that have it *)
ParityBit(s, w) ==
    (Cardinality({i \in 1..Len(s) : (s[i] \div w) % 2 = 1}) % 2) * w

XorAll(s) ==
    ParityBit(s, 1) + ParityBit(s, 2) + ParityBit(s, 4) + ParityBit(s, 8)
        + ParityBit(s, 16) + ParityBit(s, 32) + ParityBit(s, 64) + ParityBit(s, 128)

Concat(ss) ==
    LET cat[i \in 0..Len(ss)] == IF i = 0 THEN <<>> ELSE cat[i - 1] \o ss[i]
    IN  cat[Len(ss)]

instrument_frame(sid, command, msg_data) ==
    LET msg == <<2, sid, command, 3>> \o to_bytes(Len(msg_data), 2) \o msg_data
    IN  msg \o <<XorAll(msg)>> \o <<4>>

instrument_record(type, timestamp4, interval, words) ==
    <<type, 0, 0, 0>> \o timestamp4 \o to_bytes(interval, 4)
        \o to_bytes(Len(words), 4) \o Concat(words)

(* a frame with its checksum byte changed, or its length field changed by  *)
(* d bytes                                                                 *)
bad_checksum(frame) ==
    [frame EXCEPT ![Len(frame) - 1] = (frame[Len(frame) - 1] + 1) % 256]

bad_length(frame, d) ==
    LET n == from_bytes(Slice(frame, 4, 6)) + d
    IN  Slice(frame, 0, 4) \o to_bytes(n, 2) \o Slice(frame, 6, Len(frame))

(* the packed timestamp of the six fields, as 4 big-endian bytes           *)
packed_timestamp(yoff, mm, dd, HH, MM, SS) ==
    to_bytes(yoff * 1024 + mm * 64 + dd * 2 + (HH \div 16), 2)
        \o to_bytes((HH % 16) * 4096 + MM * 64 + SS, 2)

----------------------------------------------------------------------------
(* Inputs of the codec harness.                                            *)

MaxPayload == 2     \* longest enumerated payload of a request
MaxItems   == 2     \* most 4-byte items in a simple response
MaxFields  == 2     \* most fields per logged record
MaxRecords == 3     \* most records in a logged-data reply

SerialIds == {0, 5, 255}

SeqsUpTo(S, n) == UNION {[1..k -> S] : k \in 0..n}

Commands == {1, 4, 5, 6, 7}
ParameterIds == {0, 1, 4035, 1635000, 2147483647}
Payloads ==
    SeqsUpTo({0, 4, 255}, MaxPayload)
        \cup {<<0, 0, 0, 1>>, <<82, 69, 65, 76, 76, 89>>,
              <<96, 255, 126, 250, 252, 255, 126, 250>>}

FrameInputs ==
    [kind : {"frame"}, command : Commands, parameter_id : ParameterIds,
     payload : Payloads]

Years  == {1992, 1999, 2000, 2007, 2008, 2024, 2031, 2032, 2063, 2064}
Months == {1, 2, 4, 12}
Days   == {1, 28, 29, 30, 31}
Times  == {<<0, 0, 0>>, <<12, 30, 15>>, <<23, 59, 59>>}

DatetimeInputs ==
    {[kind |-> "datetime", dtm |-> datetime(y, m, d, t[1], t[2], t[3])] :
        <<y, m, d, t>> \in {c \in Years \X Months \X Days \X Times :
                               datetime_ok(c[1], c[2], c[3], c[4][1], c[4][2], c[4][3])}}

YearOffsets == {0, 8, 31, 32, 63}
RawMonths   == {0, 1, 2, 4, 13}
RawDays     == {0, 1, 29, 30, 31}
RawTimes    == {<<0, 0, 0>>, <<23, 59, 59>>, <<24, 0, 0>>, <<0, 60, 0>>,
                <<0, 0, 60>>, <<31, 63, 63>>}

TimestampInputs ==
    {[kind |-> "timestamp",
      timestamp |-> from_bytes_wide(packed_timestamp(q[1], q[2], q[3], q[4][1], q[4][2], q[4][3]))] :
        q \in YearOffsets \X RawMonths \X RawDays \X RawTimes}

ItemValues == {0, 1, 2, 4035}
Damages == {"none", "checksum", "length+", "length-"}

damaged(frame, damage) ==
    CASE damage = "checksum" -> bad_checksum(frame)
      [] damage = "length+"  -> bad_length(frame, 4)
      [] damage = "length-"  -> IF from_bytes(Slice(frame, 4, 6)) >= 4
                                THEN bad_length(frame, 0 - 4) ELSE bad_length(frame, 8)
      [] OTHER               -> frame

simple_response(sid, command, items, damage) ==
    damaged(instrument_frame(sid, command,
                Concat([k \in 1..Len(items) |-> to_bytes(items[k], 4)])), damage)

ResponseInputs(sid) ==
    {[kind |-> "response", command |-> q[1], items |-> q[2], damage |-> q[3],
      response |-> simple_response(sid, q[1], q[2], q[3])] :
        q \in {1, 4, 5, 6} \X SeqsUpTo(ItemValues, MaxItems) \X Damages}

(* the records a logged-data reply is made of: three headers (small keys   *)
(* just above 1000, large constructed keys, a mix with one key <= 1000),   *)
(* two data records and a record of another type                           *)
RecordKinds == {"HS", "HL", "HM", "D1", "D2", "X"}

header_keys(rk, n) ==
    [j \in 1..n |-> CASE rk = "HS" -> 1000 + j
                      [] rk = "HL" -> 1635000 + 90 * j
                      [] OTHER     -> IF j = 1 THEN 450 ELSE 1000 + j]

F32_12_5  == <<65, 72, 0, 0>>      \* 12.5
F32_m3_0  == <<192, 64, 0, 0>>     \* -3.0

data_slots(rk, n) ==
    [j \in 1..n |-> IF (j % 2 = 1) = (rk = "D1") THEN F32_12_5 ELSE F32_m3_0]

record_timestamp(rk) ==
    CASE rk = "D1" -> packed_timestamp(24, 5, 6, 7, 8, 9)
      [] rk = "D2" -> packed_timestamp(40, 12, 31, 23, 59, 59)
      [] OTHER     -> <<0, 0, 0, 0>>

record_interval(rk) == IF rk = "D2" THEN 300 ELSE 60

record_bytes(rk, n) ==
    CASE rk \in {"HS", "HL", "HM"} ->
            instrument_record(1, record_timestamp(rk), record_interval(rk),
                [j \in 1..n |-> to_bytes(header_keys(rk, n)[j], 4)])
      [] rk \in {"D1", "D2"} ->
            instrument_record(0, record_timestamp(rk), record_interval(rk), data_slots(rk, n))
      [] OTHER ->
            instrument_record(2, record_timestamp(rk), record_interval(rk),
                [j \in 1..n |-> <<0, 0, 0, 0>>])

logged_response(sid, command, recs, n, extra, damage) ==
    damaged(instrument_frame(sid, command,
                Concat([i \in 1..Len(recs) |-> record_bytes(recs[i], n)])
                    \o [j \in 1..extra |-> 0]), damage)

LoggedInputs(sid) ==
    {[kind |-> "logged", command |-> q[1], recs |-> q[2], nfields |-> q[3],
      extra |-> q[4], damage |-> q[5],
      response |-> logged_response(sid, q[1], q[2], q[3], q[4], q[5])] :
        q \in {c \in {7, 4} \X SeqsUpTo(RecordKinds, MaxRecords) \X (1..MaxFields)
                       \X {0, 6} \X {"none", "checksum", "length+"} :
                  /\ (c[1] = 4 => Len(c[2]) <= 1)
                  /\ (c[5] # "none" => c[4] = 0)}}

(* two byte strings whose checksums, and the checksum of their              *)
(* concatenation, are computed                                             *)
ChecksumInputs ==
    [kind : {"bytes"}, a : SeqsUpTo({0, 4, 126, 255}, MaxPayload),
     b : SeqsUpTo({0, 4, 126, 255}, MaxPayload)]

CodecInputs(sid) ==
    FrameInputs \cup DatetimeInputs \cup TimestampInputs \cup ChecksumInputs
        \cup ResponseInputs(sid) \cup LoggedInputs(sid)

no_result == [exc |-> "none", val |-> <<>>]

----------------------------------------------------------------------------
(* The driver classes and their instances: NEPH.__init__, AE33.__init__    *)
(* and TEI49C.__init__ store the name, the connection settings, the data   *)
(* directory and the staging settings of the instrument.  Python looks an  *)
(* attribute up in the instance first and in its class next.  Attribute    *)
(* values are tuples of strings (a path is the tuple of its parts).        *)

MaxInstances == 2   \* driver instances constructed in one program

Classes == {"NEPH", "AE33", "TEI49C"}

(* the attributes the constructors set from the configuration, and the     *)
(* data file an operation sets                                             *)
Settings == {"name", "conn", "datadir", "staging", "zip"}
Attributes == Settings \cup {"datafile"}

None == <<"None">>

(* the class bodies: NEPH declares no class attribute (the declarations    *)
(* are commented out), AE33 and TEI49C declare theirs as None or False     *)
class_body(cls) ==
    IF cls = "NEPH"
    THEN [a \in {} |-> None]
    ELSE [a \in Attributes |-> IF a = "zip" THEN <<"False">> ELSE None]

(* the configurations: an instrument name with its connection, and the     *)
(* data and staging directories of the installation                        *)
DriverConfigs ==
    [name : {"ne1", "ne2"}, conn : {"host1", "host2"}, data : {"data1", "data2"},
     staging : {"stage1", "stage2"}, zip : {"False", "True"}]

(* the attributes after the assignments of a constructor to the settings   *)
(* in `done`, the statements it reached                                    *)
configured(cls, attrs, config, done) ==
    [a \in DOMAIN attrs \cup done |->
        IF a \in done
        THEN CASE a = "name"    -> <<config.name>>
               [] a = "conn"    -> <<config.conn>>
               [] a = "datadir" -> IF cls = "NEPH"
                                   THEN <<config.data, config.name, "data">>
                                   ELSE <<config.data, config.name>>
               [] a = "staging" -> <<config.staging>>
               [] OTHER         -> <<config.zip>>
        ELSE attrs[a]]

(* getattr(instance, a): the instance's attribute, else its class's;       *)
(* AttributeError is <<"unset">>                                           *)
getattr(i, a) ==
    IF a \in DOMAIN objects[i].attrs THEN objects[i].attrs[a]
    ELSE IF a \in DOMAIN class_attrs[objects[i].class]
    THEN class_attrs[objects[i].class][a]
    ELSE <<"unset">>

no_drivers ==
    /\ class_attrs = [cls \in Classes |-> class_body(cls)]
    /\ objects = <<>>

(* an AE33 instance that was not constructed, a transfer not started *)
MaxFiles == 2       \* files under the local path of a transfer

Files == 1..MaxFiles

no_ae33 ==
    /\ data_begin_read_id = 0 /\ datafile = 0 /\ file_to_stage = 0
    /\ staging = FALSE /\ zip = FALSE /\ now = 1 /\ table_maxid = 1
    /\ written = {} /\ staged = <<>> /\ late = {} /\ fetched = <<>>
    /\ retrieved = {}

no_put == [file |-> 0, returned |-> FALSE, src_size |-> -1, dst_size |-> -1]

no_sftp ==
    /\ local_files = [f \in Files |-> -1]
    /\ remote_files = [f \in Files |-> -1]
    /\ walk = <<>> /\ remove_on_success = FALSE /\ last_put = no_put

elsewhere_idle == no_drivers /\ no_ae33 /\ no_sftp

----------------------------------------------------------------------------
(* The codec harness: one input, one function applied to it.               *)

session_idle ==
    /\ pc = "idle" /\ step = 0 /\ acc = <<>> /\ err = "none"
    /\ tcp = "none" /\ comm_msg = <<>> /\ rcvd = <<>> /\ comm_ret = <<>>
    /\ wire = <<>> /\ peer = "open" /\ sent = <<>> /\ polls = 0
    /\ conns = 0 /\ _log = TRUE /\ heard = <<>> /\ last_id = <<>>
    /\ init_report = "none"

CodecInit ==
    /\ serial_id \in SerialIds
    /\ protocol = "acoem"
    /\ fn = "none"
    /\ arg \in CodecInputs(serial_id)
    /\ ret = no_result
    /\ session_idle
    /\ elsewhere_idle

(* _checksum of a, of b, of a + b, and of a followed by its own checksum *)
apply_checksum ==
    /\ fn = "none" /\ arg.kind = "bytes"
    /\ fn' = "_checksum"
    /\ ret' = [exc |-> "none",
               val |-> [a |-> _checksum(arg.a), b |-> _checksum(arg.b),
                        ab |-> _checksum(arg.a \o arg.b),
                        closed |-> _checksum(arg.a \o _checksum(arg.a))]]
    /\ UNCHANGED <<elsewhere, serial_id, arg, session_vars>>

apply_construct_message ==
    /\ fn = "none" /\ arg.kind = "frame"
    /\ fn' = "_acoem_construct_message"
    /\ ret' = IF construct_message_raises(arg.command, arg.parameter_id, arg.payload)
              THEN [exc |-> "OverflowError", val |-> <<>>]
              ELSE [exc |-> "none",
                    val |-> _acoem_construct_message(arg.command, arg.parameter_id, arg.payload)]
    /\ UNCHANGED <<elsewhere, serial_id, arg, session_vars>>

apply_datetime_to_timestamp ==
    /\ fn = "none" /\ arg.kind = "datetime"
    /\ fn' = "_acoem_datetime_to_timestamp"
    /\ ret' = [exc |-> "none", val |-> _acoem_datetime_to_timestamp(arg.dtm)]
    /\ UNCHANGED <<elsewhere, serial_id, arg, session_vars>>

apply_timestamp_to_datetime ==
    /\ fn = "none" /\ arg.kind = "timestamp"
    /\ fn' = "_acoem_timestamp_to_datetime"
    /\ ret' = _acoem_timestamp_to_datetime(arg.timestamp)
    /\ UNCHANGED <<elsewhere, serial_id, arg, session_vars>>

apply_decode_response ==
    /\ fn = "none" /\ arg.kind = "response"
    /\ fn' = "_acoem_decode_response"
    /\ ret' = [exc |-> "none", val |-> _acoem_decode_response(arg.response)]
    /\ UNCHANGED <<elsewhere, serial_id, arg, session_vars>>

apply_decode_logged_data ==
    /\ fn = "none" /\ arg.kind = "logged"
    /\ fn' = "_acoem_decode_logged_data"
    /\ ret' = _acoem_decode_logged_data(arg.response)
    /\ UNCHANGED <<elsewhere, serial_id, arg, session_vars>>

CodecNext ==
    \/ apply_checksum
    \/ apply_construct_message
    \/ apply_datetime_to_timestamp
    \/ apply_timestamp_to_datetime
    \/ apply_decode_response
    \/ apply_decode_logged_data

CodecSpec == CodecInit /\ [][CodecNext]_vars

----------------------------------------------------------------------------
(* Constructing and operating driver instances.                            *)

neph_idle ==
    /\ serial_id = 0 /\ protocol = "acoem" /\ fn = "none"
    /\ arg = [kind |-> "call"] /\ ret = no_result
    /\ session_idle

no_attrs == [a \in {} |-> None]

(* NEPH(name, config): every assignment is to self *)
NEPH_init ==
    /\ Len(objects) < MaxInstances
    /\ \E config \in DriverConfigs :
          objects' = Append(objects,
                            [class |-> "NEPH",
                             attrs |-> configured("NEPH", no_attrs, config, Settings)])
    /\ UNCHANGED <<class_attrs, outside_drivers>>

(* AE33(name, config): every assignment is to self *)
AE33_init ==
    /\ Len(objects) < MaxInstances
    /\ \E config \in DriverConfigs :
          objects' = Append(objects,
                            [class |-> "AE33",
                             attrs |-> configured("AE33", no_attrs, config, Settings)])
    /\ UNCHANGED <<class_attrs, outside_drivers>>

(* TEI49C(name, config): __init__ is a classmethod, every assignment is to *)
(* cls.  serial.Serial(...) may raise; the assignments after it (data      *)
(* directory, staging) are then not made and the handler logs the error    *)
TEI49C_init ==
    /\ Len(objects) < MaxInstances
    /\ objects' = Append(objects, [class |-> "TEI49C", attrs |-> no_attrs])
    /\ \E config \in DriverConfigs, port_ok \in BOOLEAN :
          class_attrs' =
              [class_attrs EXCEPT !["TEI49C"] =
                  configured("TEI49C", @, config,
                             IF port_ok THEN Settings ELSE {"name"})]
    /\ UNCHANGED outside_drivers

(* os.path.join(datadir, name + "-" + bin + ".dat") *)
datafile_path(datadir, name) == datadir \o name \o <<"dat">>

(* AE33.get_new_data(save=True) on an instance: self.__datafile = ...      *)
AE33_get_new_data ==
    /\ \E i \in 1..Len(objects) :
          /\ objects[i].class = "AE33"
          /\ objects' = [objects EXCEPT ![i].attrs =
                            [a \in DOMAIN @ \cup {"datafile"} |->
                                IF a = "datafile"
                                THEN datafile_path(getattr(i, "datadir"),
                                                   getattr(i, "name"))
                                ELSE @[a]]]
    /\ UNCHANGED <<class_attrs, outside_drivers>>

(* TEI49C.get_data(save=True), a classmethod: cls._datafile = ...; with    *)
(* cls._datadir None, os.path.join raises and nothing is assigned          *)
TEI49C_get_data ==
    /\ \E i \in 1..Len(objects) :
          /\ objects[i].class = "TEI49C"
          /\ getattr(i, "datadir") # None
          /\ class_attrs' = [class_attrs EXCEPT !["TEI49C"]["datafile"] =
                                datafile_path(getattr(i, "datadir"),
                                              getattr(i, "name"))]
    /\ UNCHANGED <<objects, outside_drivers>>

DriverInit == neph_idle /\ no_drivers /\ no_ae33 /\ no_sftp

DriverNext ==
    \/ NEPH_init
    \/ AE33_init
    \/ TEI49C_init
    \/ AE33_get_new_data
    \/ TEI49C_get_data

DriverSpec == DriverInit /\ [][DriverNext]_vars

----------------------------------------------------------------------------
(* One AE33 instance: reading the Data table of the instrument into data   *)
(* files named after the reporting interval, and staging the files that    *)
(* are complete.                                                           *)

MaxBins  == 3       \* reporting intervals the wall clock passes through
MaxId    == 3       \* largest id the Data table reaches
MaxCalls == 3       \* get_new_data calls that send a FETCH command

(* datetimebin.dtbin(reporting_interval): the label of the reporting       *)
(* interval the wall clock is in; the wall clock does not go back.         *)
dtbin == now

(* What tcpip_comm returns for "FETCH Data begin maxid": None when the     *)
(* exchange raised (connection refused, timeout), and otherwise what was   *)
(* received up to and including the first chunk that holds a carriage      *)
(* return, that is the records begin..k for some k.                        *)
FetchReplies(begin, maxid) ==
    {[failed |-> TRUE, ids |-> {}]}
        \cup (IF begin > maxid THEN {[failed |-> FALSE, ids |-> {}]}
              ELSE {[failed |-> FALSE, ids |-> begin..k] : k \in begin..maxid})

(* stage_file with self.__datafile = current: the new self.__file_to_stage *)
(* and the staging area.  `copied` is whether zipping or copying the file  *)
(* succeeded; a file that does not exist cannot be copied.  An exception   *)
(* (the ValueErrors included) is logged and changes nothing.               *)
stage_file_eager(current, copied) ==
    IF current = 0 \/ ~staging
    THEN [file_to_stage |-> file_to_stage, staged |-> staged]
    ELSE IF file_to_stage = 0
    THEN [file_to_stage |-> current, staged |-> staged]
    ELSE IF copied /\ file_to_stage \in written
         THEN [file_to_stage |-> current,
               staged |-> Append(staged, [file |-> file_to_stage,
                                          datafile |-> current, zip |-> zip])]
         ELSE [file_to_stage |-> file_to_stage, staged |-> staged]

stage_file(current, copied) ==
    IF current = 0 \/ ~staging
    THEN [file_to_stage |-> file_to_stage, staged |-> staged]
    ELSE IF file_to_stage = 0
    THEN [file_to_stage |-> current, staged |-> staged]
    ELSE IF file_to_stage # current
    THEN IF copied /\ file_to_stage \in written
         THEN [file_to_stage |-> current,
               staged |-> Append(staged, [file |-> file_to_stage,
                                          datafile |-> current, zip |-> zip])]
         ELSE [file_to_stage |-> file_to_stage, staged |-> staged]
    ELSE [file_to_stage |-> file_to_stage, staged |-> staged]

StagedFiles == {staged[i].file : i \in 1..Len(staged)}

(* the wall clock enters the next reporting interval *)
tick ==
    /\ now < MaxBins
    /\ now' = now + 1
    /\ UNCHANGED <<data_begin_read_id, datafile, file_to_stage, staging, zip,
                   table_maxid, written, staged, late, fetched, retrieved>>
    /\ UNCHANGED outside_ae33

(* the instrument adds a record to its Data table *)
measure ==
    /\ table_maxid < MaxId
    /\ table_maxid' = table_maxid + 1
    /\ UNCHANGED <<data_begin_read_id, datafile, file_to_stage, staging, zip,
                   now, written, staged, late, fetched, retrieved>>
    /\ UNCHANGED outside_ae33

(* AE33.get_new_data(save): the MAXID exchange, the FETCH exchange, the    *)
(* new read position, and with save the data file and stage_file().        *)
(* int(None) raises when the MAXID exchange failed, open() or write() may  *)
(* raise; the handler logs the exception and the call returns.             *)
get_new_data ==
    /\ Len(fetched) < MaxCalls
    /\ \E save \in BOOLEAN, maxid_failed \in BOOLEAN :
          LET maxid == table_maxid
              begin == IF data_begin_read_id # 0 THEN data_begin_read_id ELSE maxid
          IN  IF maxid_failed
              THEN UNCHANGED ae33_vars
              ELSE \E reply \in FetchReplies(begin, maxid),
                      opened \in BOOLEAN, copied \in BOOLEAN :
                      /\ fetched' = Append(fetched, <<begin, maxid>>)
                      /\ retrieved' = retrieved \cup reply.ids
                      /\ data_begin_read_id' = maxid + 1
                      /\ IF save
                         THEN /\ datafile' = dtbin
                              /\ IF opened
                                 THEN /\ written' = written \cup {dtbin}
                                      /\ late' = late \cup ({dtbin} \cap StagedFiles)
                                      /\ file_to_stage' = stage_file(dtbin, copied).file_to_stage
                                      /\ staged' = stage_file(dtbin, copied).staged
                                 ELSE UNCHANGED <<written, late, file_to_stage, staged>>
                         ELSE UNCHANGED <<datafile, written, late, file_to_stage, staged>>
                      /\ UNCHANGED <<staging, zip, now, table_maxid>>
    /\ UNCHANGED outside_ae33

(* AE33.stage_file() called by the user of the driver *)
call_stage_file ==
    /\ \E copied \in BOOLEAN :
          /\ file_to_stage' = stage_file(datafile, copied).file_to_stage
          /\ staged' = stage_file(datafile, copied).staged
    /\ UNCHANGED <<data_begin_read_id, datafile, staging, zip, now,
                   table_maxid, written, late, fetched, retrieved>>
    /\ UNCHANGED outside_ae33

(* after AE33(name, config): the staging path and the zip flag are those   *)
(* of the configuration, or None and False when the constructor's handler  *)
(* caught an exception before they were assigned                           *)
AE33Init ==
    /\ neph_idle /\ no_drivers /\ no_sftp
    /\ data_begin_read_id = 0 /\ datafile = 0 /\ file_to_stage = 0
    /\ staging \in BOOLEAN /\ zip \in BOOLEAN /\ (~staging => ~zip)
    /\ now = 1 /\ table_maxid \in 1..2
    /\ written = {} /\ staged = <<>> /\ late = {} /\ fetched = <<>>
    /\ retrieved = {}

AE33Next ==
    \/ tick
    \/ measure
    \/ get_new_data
    \/ call_stage_file

AE33Spec == AE33Init /\ [][AE33Next]_vars

----------------------------------------------------------------------------
(* SFTPClient.transfer_files: every file under local_path is put to the    *)
(* remote host and, with remove_on_success, removed when the size the put  *)
(* reported equals the size of the local file.  Sizes are in blocks; -1    *)
(* stands for a file that does not exist.                                  *)

MaxSize == 2        \* largest file size

(* `if dst_size == src_size: os.remove(src)` under `if remove_on_success:` *)
may_remove_unchecked(flag, src_size, dst_size) == flag

may_remove(flag, src_size, dst_size) == flag /\ dst_size = src_size

(* the files os.walk lists, in ascending order *)
listed(present) ==
    LET up[n \in 0..MaxFiles] ==
            IF n = 0 THEN <<>>
            ELSE IF n \in present THEN Append(up[n - 1], n) ELSE up[n - 1]
    IN  up[MaxFiles]

(* a writer creates a file under local_path or appends to one *)
append_local ==
    /\ \E f \in Files :
          /\ local_files[f] < MaxSize
          /\ local_files' = [local_files EXCEPT ![f] = @ + 1]
    /\ UNCHANGED <<remote_files, walk, remove_on_success, last_put>>
    /\ UNCHANGED outside_sftp

(* transfer_files(remove_on_success=...) up to the loop over the files; an *)
(* exception while connecting is logged and the call returns               *)
transfer_files ==
    /\ walk = <<>>
    /\ \E flag \in BOOLEAN, connected \in BOOLEAN :
          IF connected
          THEN /\ walk' = listed({f \in Files : local_files[f] # -1})
               /\ remove_on_success' = flag
               /\ last_put' = no_put
          ELSE UNCHANGED <<walk, remove_on_success, last_put>>
    /\ UNCHANGED <<local_files, remote_files>>
    /\ UNCHANGED outside_sftp

(* one round of the loop: sftp.put(src, dst, confirm=True), then           *)
(* os.stat(src) and os.remove(src).  A put that raises ends the call and   *)
(* may leave a part of the file on the remote host; a put that returns     *)
(* reports the size of what it wrote; the local file may have grown by the *)
(* time os.stat looks at it.                                               *)
put_next ==
    /\ walk # <<>>
    /\ LET src == Head(walk)
       IN  \E returned \in BOOLEAN, grown \in BOOLEAN, part \in -1..MaxSize :
              IF ~returned
              THEN /\ part <= local_files[src]
                   /\ ~grown
                   /\ remote_files' = [remote_files EXCEPT ![src] = part]
                   /\ walk' = <<>>
                   /\ last_put' = [file |-> src, returned |-> FALSE,
                                   src_size |-> -1, dst_size |-> -1]
                   /\ UNCHANGED local_files
              ELSE LET dst_size == local_files[src]
                       src_size == IF grown THEN local_files[src] + 1
                                   ELSE local_files[src]
                   IN  /\ part = dst_size
                       /\ src_size <= MaxSize
                       /\ remote_files' = [remote_files EXCEPT ![src] = dst_size]
                       /\ local_files' =
                              [local_files EXCEPT ![src] =
                                  IF may_remove(remove_on_success, src_size, dst_size)
                                  THEN -1 ELSE src_size]
                       /\ walk' = Tail(walk)
                       /\ last_put' = [file |-> src, returned |-> TRUE,
                                       src_size |-> src_size, dst_size |-> dst_size]
    /\ UNCHANGED remove_on_success
    /\ UNCHANGED outside_sftp

SFTPInit ==
    /\ neph_idle /\ no_drivers /\ no_ae33
    /\ local_files \in [Files -> -1..MaxSize]
    /\ remote_files = [f \in Files |-> -1]
    /\ walk = <<>> /\ remove_on_success = FALSE /\ last_put = no_put

SFTPNext ==
    \/ append_local
    \/ transfer_files
    \/ put_next

SFTPSpec == SFTPInit /\ [][SFTPNext]_vars


----------------------------------------------------------------------------
(* Text of the legacy dialect.  str.encode() and bytes.decode() convert    *)
(* between characters and their ASCII codes; the characters that occur     *)
(* are those of codes 32..90, carriage return and line feed.               *)

Ascii ==
    <<" ", "!", "\"", "#", "$", "%", "&", "'", "(", ")", "*", "+", ",", "-",
      ".", "/", "0", "1", "2", "3", "4", "5", "6", "7", "8", "9", ":", ";",
      "<", "=", ">", "?", "@", "A", "B", "C", "D", "E", "F", "G", "H", "I",
      "J", "K", "L", "M", "N", "O", "P", "Q", "R", "S", "T", "U", "V", "W",
      "X", "Y", "Z">>

ord(ch) ==
    CASE ch = "\n" -> 10
      [] ch = "\r" -> 13
      [] OTHER     -> 31 + (CHOOSE i \in 1..Len(Ascii) : Ascii[i] = ch)

chr(b) ==
    CASE b = 10 -> "\n"
      [] b = 13 -> "\r"
      [] OTHER  -> Ascii[b - 31]

encode(str) == [i \in 1..Len(str) |-> ord(str[i])]
decode(b) == [i \in 1..Len(b) |-> chr(b[i])]

(* str(n) and f"{n:02.0f}" of an int n >= 0 *)
RECURSIVE str_int(_)
str_int(n) ==
    IF n < 10 THEN <<chr(48 + n)>> ELSE Append(str_int(n \div 10), chr(48 + (n % 10)))

format_02_0f(n) == IF n < 10 THEN <<"0">> \o str_int(n) ELSE str_int(n)

endswith(b, suffix) ==
    Len(b) >= Len(suffix) /\ SubSeq(b, Len(b) - Len(suffix) + 1, Len(b)) = suffix

(* bytes.strip(): ASCII whitespace removed from both ends *)
Whitespace == {9, 10, 11, 12, 13, 32}

strip(b) ==
    LET keep == {i \in 1..Len(b) : b[i] \notin Whitespace}
    IN  IF keep = {} THEN <<>>
        ELSE SubSeq(b, CHOOSE i \in keep : \A j \in keep : i <= j,
                       CHOOSE i \in keep : \A j \in keep : i >= j)

----------------------------------------------------------------------------
(* The instrument: what it puts on the socket after a request.  A binary   *)
(* request is answered with a frame of the request's command, a text       *)
(* request with a line ending in CR LF; the reply comes whole or in two    *)
(* chunks, or not at all, and the instrument then keeps the connection     *)
(* open or closes it.                                                      *)

MaxPolls == 2       \* polls counted in set_current_operation (then "many")
MaxSent  == 3       \* messages remembered per operation (the last one stays)

StateTimestamp == from_bytes(packed_timestamp(24, 5, 6, 7, 8, 9))

ReplyItems(request) ==
    LET command == request[3]
    IN  CASE command = 1 -> {<<158, 300>>, <<158, 0, 1, 2>>}
          [] command = 4 ->
                IF Slice(request, 6, 10) = to_bytes(1, 4)
                THEN {<<>>, <<0>>, <<StateTimestamp>>}
                ELSE IF Len(request) = 16
                THEN {<<7>>, <<7, 8>>}
                ELSE {<<>>, <<0>>, <<1>>, <<2>>, <<3>>}
          [] command = 5 -> {<<0>>}
          [] command = 6 -> {<<2, 1001, 1002>>}
          [] OTHER       -> {}

acoem_replies(sid, request) ==
    {simple_response(sid, request[3], items, "none") : items \in ReplyItems(request)}
        \cup (IF request[3] = 7
              THEN {logged_response(sid, 7, recs, 2, 0, "none") :
                        recs \in {<<>>, <<"HS", "D1">>}}
              ELSE {})

legacy_replies(request) ==
    LET text  == decode(request)
        tail3 == IF Len(text) >= 3 THEN SubSeq(text, Len(text) - 2, Len(text)) ELSE <<>>
        lines ==
            CASE SubSeq(text, 1, 2) = <<"I", "D">> -> {<<"N", "E", "3", "0", "0">>}
              [] SubSeq(text, 1, 2) = <<"*", "*">> -> {<<"O", "K">>}
              [] tail3 = <<"7", "1", "\r">> ->
                    {<<"0", "0", "0">>, <<"0", "1", "6">>, <<"0", "3", "2">>,
                     <<"0", "0", "8">>}
              [] tail3 = <<"6", "4", "\r">> ->
                    {<<"D", "/", "M", "/", "Y">>, <<"Y", "-", "M", "-", "D">>,
                     <<"M", " ", "/", "D", "/", "Y">>, <<"0">>}
              [] tail3 = <<"8", "0", "\r">> ->
                    {<<"0", "6", "/", "0", "5", "/", "2", "0", "2", "4">>,
                     <<"2", "0", "2", "4", "-", "0", "5", "-", "0", "6">>}
              [] tail3 = <<"8", "1", "\r">> -> {<<"0", "7", ":", "0", "8", ":", "0", "9">>}
              [] OTHER -> {<<"1", "2", ".", "5">>}
    IN  {encode(line \o <<"\r", "\n">>) : line \in lines}

instrument_replies(dialect, sid, request) ==
    IF dialect = "acoem" THEN acoem_replies(sid, request) ELSE legacy_replies(request)

(* the ways a reply reaches the socket: at once, or cut after the first   *)
(* four bytes                                                              *)
chunkings(reply) ==
    {<<reply>>} \cup (IF Len(reply) > 4
                      THEN {<<Slice(reply, 0, 4), Slice(reply, 4, Len(reply))>>}
                      ELSE {})

WireChoices(dialect, sid, request) ==
    {<<>>} \cup UNION {chunkings(r) : r \in instrument_replies(dialect, sid, request)}

----------------------------------------------------------------------------
(* tcpip_comm, one action per socket call.                                 *)

log_append(log, msg) ==
    IF Len(log) < MaxSent THEN Append(log, msg) ELSE [log EXCEPT ![MaxSent] = msg]

tcpip_comm_enter(msg) ==
    /\ pc' = "tcpip_comm" /\ tcp' = "connect" /\ comm_msg' = msg
    /\ rcvd' = <<>> /\ comm_ret' = <<>> /\ wire' = <<>> /\ peer' = "open"

(* the return statements of tcpip_comm: a value, or b'' from the except   *)
(* branch after the error was logged; the socket is closed either way     *)
(* the return statements of tcpip_comm.  The except branch starts with     *)
(* `if self._log:`, an AttributeError when the attribute was never set:    *)
(* raised inside a handler, it leaves tcpip_comm and, each caller's        *)
(* handler starting the same way, every operation above it.                *)
tcpip_comm_return(value, error) ==
    /\ tcp' = "none" /\ wire' = <<>> /\ peer' = "open"
    /\ IF error # "none" /\ ~_log
       THEN pc' = "raised" /\ comm_ret' = <<>> /\ err' = "AttributeError"
       ELSE /\ pc' = "returned" /\ comm_ret' = value
            /\ err' = IF error = "none" THEN err ELSE error

(* history of an identification: one entry per socket call that depends on *)
(* the other side, <<call, whether it succeeded, the chunks the instrument *)
(* is going to deliver, what it does after them>>                          *)
hear(event) == IF fn = "get_id" THEN Append(heard, event) ELSE heard

tcp_connect ==
    /\ pc = "tcpip_comm" /\ tcp = "connect"
    /\ \E ok \in BOOLEAN :
          /\ IF ok
             THEN /\ tcp' = "clear" /\ conns' = conns + 1
                  /\ UNCHANGED <<pc, err, comm_ret, wire, peer>>
             ELSE /\ tcpip_comm_return(<<>>, "ConnectionRefusedError")
                  /\ UNCHANGED conns
          /\ heard' = hear(<<"connect", ok, <<>>, "open">>)
    /\ UNCHANGED <<elsewhere, serial_id, protocol, fn, arg, ret, step, acc, comm_msg, rcvd,
                   sent, polls, _log, last_id, init_report>>

(* s.recv(1024) before the request is sent: it returns when the instrument *)
(* has sent something (or closed), and times out when it has not           *)
tcp_clear ==
    /\ pc = "tcpip_comm" /\ tcp = "clear"
    /\ \E unsolicited \in BOOLEAN :
          /\ IF unsolicited
             THEN /\ tcp' = "send"
                  /\ UNCHANGED <<pc, err, comm_ret, wire, peer, conns>>
             ELSE /\ tcpip_comm_return(<<>>, "timeout")
                  /\ conns' = conns - 1
          /\ heard' = hear(<<"clear", unsolicited, <<>>, "open">>)
    /\ UNCHANGED <<elsewhere, serial_id, protocol, fn, arg, ret, step, acc, comm_msg, rcvd,
                   sent, polls, _log, last_id, init_report>>

tcp_send ==
    /\ pc = "tcpip_comm" /\ tcp = "send"
    /\ \E ok \in BOOLEAN :
          /\ IF ok
             THEN /\ sent' = log_append(sent, comm_msg)
                  /\ tcp' = "recv"
                  /\ wire' \in WireChoices(protocol, serial_id, comm_msg)
                  /\ peer' \in {"open", "closed"}
                  /\ UNCHANGED <<pc, err, comm_ret, conns>>
             ELSE /\ tcpip_comm_return(<<>>, "BrokenPipeError")
                  /\ conns' = conns - 1
                  /\ UNCHANGED sent
          /\ heard' = hear(<<"send", ok, wire', peer'>>)
    /\ UNCHANGED <<elsewhere, serial_id, protocol, fn, arg, ret, step, acc, comm_msg, rcvd,
                   polls, _log, last_id, init_report>>

(* one s.recv(1024) of the receive loop.  In the acoem branch the return  *)
(* statement is inside the loop body, so the first recv ends the call.    *)
tcp_recv ==
    /\ pc = "tcpip_comm" /\ tcp = "recv"
    /\ IF wire = <<>> /\ peer = "open"
       THEN /\ tcpip_comm_return(<<>>, "timeout")
            /\ conns' = conns - 1
            /\ UNCHANGED rcvd
       ELSE LET data  == IF wire = <<>> THEN <<>> ELSE Head(wire)
                rest  == IF wire = <<>> THEN <<>> ELSE Tail(wire)
                rcvd2 == rcvd \o data
            IN  IF protocol = "acoem"
                THEN /\ tcpip_comm_return(rcvd2, "none")
                     /\ rcvd' = rcvd2 /\ conns' = conns - 1
                ELSE IF endswith(rcvd2, <<13, 10>>) \/ endswith(rcvd2, <<13, 10, 10>>)
                     THEN /\ tcpip_comm_return(strip(rcvd2), "none")
                          /\ rcvd' = rcvd2 /\ conns' = conns - 1
                     ELSE /\ rcvd' = rcvd2 /\ wire' = rest
                          /\ UNCHANGED <<pc, tcp, err, comm_ret, peer, conns>>
    /\ UNCHANGED <<elsewhere, serial_id, protocol, fn, arg, ret, step, acc, comm_msg, sent,
                   polls, _log, heard, last_id, init_report>>

----------------------------------------------------------------------------
(* __legacy_timestamp_to_datetime: the date format the instrument reports, *)
(* its date and its time, parsed with datetime.strptime.                   *)

(* the k-th smallest element of a set of numbers *)
nth(S, k) == CHOOSE x \in S : Cardinality({y \in S : y < x}) = k - 1

(* str.replace('\r\n', ''), str.replace(' ', '') and str.split(sep) *)
replace_crlf(str) ==
    LET keep == {i \in 1..Len(str) :
                    /\ ~(str[i] = "\r" /\ i < Len(str) /\ str[i + 1] = "\n")
                    /\ ~(str[i] = "\n" /\ i > 1 /\ str[i - 1] = "\r")}
    IN  [k \in 1..Cardinality(keep) |-> str[nth(keep, k)]]

replace_spaces(str) == SelectSeq(str, LAMBDA ch : ch # " ")

split(str, sep) ==
    LET seps == {i \in 1..Len(str) : str[i] = sep}
        n    == Cardinality(seps)
        cut  == [k \in 0..(n + 1) |->
                    IF k = 0 THEN 0 ELSE IF k = n + 1 THEN Len(str) + 1 ELSE nth(seps, k)]
    IN  [k \in 1..(n + 1) |-> SubSeq(str, cut[k - 1] + 1, cut[k] - 1)]

Digits == {"0", "1", "2", "3", "4", "5", "6", "7", "8", "9"}

int10(str) ==
    LET value[i \in 0..Len(str)] ==
            IF i = 0 THEN 0 ELSE value[i - 1] * 10 + (ord(str[i]) - 48)
    IN  value[Len(str)]

(* a field a strptime directive accepts: digits only, four of them for %Y, *)
(* one or two for the others, within the directive's range                 *)
directive_ok(directive, field) ==
    /\ \A i \in 1..Len(field) : field[i] \in Digits
    /\ IF directive = "Y" THEN Len(field) = 4 ELSE Len(field) \in {1, 2}
    /\ CASE directive = "d" -> int10(field) \in 1..31
         [] directive = "m" -> int10(field) \in 1..12
         [] directive = "H" -> int10(field) \in 0..23
         [] directive = "M" -> int10(field) \in 0..59
         [] directive = "S" -> int10(field) \in 0..61
         [] OTHER           -> TRUE

(* strptime(f"{dte} {tme}", f"{fmt} %H:%M:%S") for a date format of three  *)
(* directives `order` separated by `sep`                                   *)
parse_fields(date, clock, order) ==
    LET at(d)  == int10(date[CHOOSE i \in 1..3 : order[i] = d])
        parsed == /\ Len(date) = 3 /\ Len(clock) = 3
                  /\ \A i \in 1..3 : directive_ok(order[i], date[i])
                  /\ directive_ok("H", clock[1]) /\ directive_ok("M", clock[2])
                  /\ directive_ok("S", clock[3])
    IN  IF parsed /\ datetime_ok(at("Y"), at("m"), at("d"),
                                 int10(clock[1]), int10(clock[2]), int10(clock[3]))
        THEN [exc |-> "none",
              val |-> datetime(at("Y"), at("m"), at("d"),
                               int10(clock[1]), int10(clock[2]), int10(clock[3]))]
        ELSE [exc |-> "ValueError", val |-> <<>>]

strptime(dte, tme, order, sep) ==
    Bind(<<split(dte, sep), split(tme, ":")>>,
         LAMBDA fields : parse_fields(fields[1], fields[2], order))

legacy_timestamp_to_datetime(fmt, dte, tme) ==
    LET fmt2   == replace_crlf(replace_spaces(fmt))
        dte2   == replace_crlf(dte)
        tme2   == replace_crlf(tme)
        result ==
            CASE fmt2 = <<"D", "/", "M", "/", "Y">> ->
                    strptime(dte2, tme2, <<"d", "m", "Y">>, "/")
              [] fmt2 = <<"M", "/", "D", "/", "Y">> ->
                    strptime(dte2, tme2, <<"m", "d", "Y">>, "/")
              [] fmt2 = <<"Y", "-", "M", "-", "D">> ->
                    strptime(dte2, tme2, <<"Y", "m", "d">>, "-")
              [] OTHER -> [exc |-> "ValueError", val |-> <<>>]
    IN  IF result.exc = "none" THEN result.val ELSE datetime(1111, 1, 1, 1, 1, 1)

----------------------------------------------------------------------------
(* The session operations.  Every public operation catches all exceptions, *)
(* logs them and returns its error value (self._log is true in every       *)
(* constructed session: without the 'logs' setting __init__ itself fails). *)

(* Python values: what an operation returns, and its local results, as a  *)
(* pair of the Python type and the value (an int is not a list, b'' is    *)
(* not [] and neither is {})                                               *)
py(type, value) == [exc |-> "none", val |-> <<type, value>>]
local(type, value) == <<type, value>>
value_of(typed) == typed[2]

IdNames == <<"Model", "Variant", "Sub-Type", "Range", "Build", "Branch">>
REALLY == <<82, 69, 65, 76, 76, 89>>
StateMapping_swapped ==
    [s \in {<<"0", "0", "0">>, <<"0", "1", "6">>, <<"0", "3", "2">>} |->
        CASE s = <<"0", "0", "0">> -> 0
          [] s = <<"0", "1", "6">> -> 1
          [] OTHER                 -> 2]

StateMapping == [s \in {<<"0", "0", "0">>, <<"0", "1", "6">>, <<"0", "3", "2">>} |->
                    CASE s = <<"0", "0", "0">> -> 0
                      [] s = <<"0", "1", "6">> -> 2
                      [] OTHER                 -> 1]

decode_ok(b) == \A i \in 1..Len(b) : b[i] < 128

legacy_message(head, sid, tail) == encode(head \o str_int(sid) \o tail \o <<"\r">>)

(* the frame get_values builds itself *)
get_values_raises(parameters) ==
    \/ \E i \in 1..Len(parameters) : ~to_bytes_ok(parameters[i], 4)
    \/ ~to_bytes_ok(4 * Len(parameters), 2)
    \/ serial_id \notin Byte

(* the frame with the number of ids in its length field *)
get_values_message_count_len(parameters) ==
    LET msg_data == Concat([i \in 1..Len(parameters) |-> to_bytes(parameters[i], 4)])
        msg      == <<2, serial_id, 4, 3>> \o to_bytes(Len(parameters), 2) \o msg_data
    IN  msg \o _checksum(msg) \o <<4>>

get_values_message_reversed(parameters) ==
    LET n        == Len(parameters)
        msg_data == Concat([i \in 1..n |-> to_bytes(parameters[n + 1 - i], 4)])
        msg      == <<2, serial_id, 4, 3>> \o to_bytes(Len(msg_data), 2) \o msg_data
    IN  msg \o _checksum(msg) \o <<4>>

get_values_message(parameters) ==
    LET msg_data == Concat([i \in 1..Len(parameters) |-> to_bytes(parameters[i], 4)])
        msg_len  == Len(msg_data)
        msg      == <<2, serial_id, 4, 3>> \o to_bytes(msg_len, 2) \o msg_data
    IN  msg \o _checksum(msg) \o <<4>>

(* for p in parameters: '' is appended for every p outside range(100) up   *)
(* to the next p that is exchanged                                         *)
legacy_skip_none(parameters, items) == items

RECURSIVE legacy_skip(_, _)
legacy_skip(parameters, items) ==
    IF Len(items) < Len(parameters) /\ parameters[Len(items) + 1] \notin 0..99
    THEN legacy_skip(parameters, Append(items, <<>>))
    ELSE items

(* a loop that ends on any decoded state *)
poll_confirms_any(decoded, state) == decoded # <<>>

(* while response != [state] *)
poll_confirms(decoded, state) == decoded = <<state>>

(* the arguments the operations are called with *)
D2005 == datetime(2005, 3, 4, 5, 6, 7)
D2024 == datetime(2024, 5, 6, 7, 8, 9)

GetValuesArgs == {<<>>, <<4035>>, <<71, 1635000>>, <<4035, 71>>}
SetValuesArgs == [parameter_id : {1, 4035}, value : {0, 2, 256}]
LoggedDataArgs == [start : {<<>>, <<D2005>>, <<D2024>>}, end : {<<>>, <<D2024>>}]
States == {0, 1, 2, 9, 256}
SetDatetimeArgs == {D2005, D2024}

begin(op, a) ==
    /\ pc = "idle"
    /\ fn' = op /\ arg' = a /\ step' = 0 /\ sent' = <<>> /\ polls' = 0
    /\ heard' = <<>> /\ last_id' = (IF op = "get_id" THEN last_id ELSE <<>>)
    /\ init_report' = "none"
    /\ UNCHANGED <<elsewhere, serial_id, protocol, conns, _log>>

resume(op) ==
    /\ pc = "returned" /\ fn = op
    /\ UNCHANGED <<elsewhere, serial_id, protocol, fn, arg, sent, conns, _log, heard>>
    /\ IF op = "get_id" THEN TRUE ELSE UNCHANGED <<last_id, init_report>>

(* the operation calls tcpip_comm(msg); `locals` are its local results *)
exchange(msg, locals, error) ==
    /\ tcpip_comm_enter(msg)
    /\ acc' = locals /\ err' = error /\ ret' = no_result

(* the operation returns `value`, from its body or from its except branch *)
(* the operation returns value.  With an error it returns from its except  *)
(* branch, which starts with `if self._log:`: an AttributeError that       *)
(* leaves the operation when the attribute was never set.                  *)
finish(value, locals, error) ==
    /\ IF error # "none" /\ ~_log
       THEN pc' = "raised" /\ ret' = no_result /\ err' = "AttributeError"
       ELSE pc' = "idle" /\ ret' = value /\ err' = error
    /\ acc' = locals
    /\ tcp' = "none" /\ comm_msg' = <<>> /\ rcvd' = <<>> /\ comm_ret' = <<>>
    /\ wire' = <<>> /\ peer' = "open"

(* message = self._acoem_construct_message(...) followed by tcpip_comm *)
request(command, parameter_id, payload, on_error) ==
    IF construct_message_raises(command, parameter_id, payload)
    THEN finish(on_error, <<>>, "OverflowError")
    ELSE exchange(_acoem_construct_message(command, parameter_id, payload), <<>>, "none")

unsupported_exchanges(on_error) == exchange(encode(<<"?", "\r">>), <<>>, "none")

unsupported(on_error) == finish(on_error, <<>>, "Warning")

(* `if self.__protocol == ...` in a session whose constructor never        *)
(* assigned the attribute: AttributeError, caught by the operation         *)
no_protocol(on_error) == finish(on_error, <<>>, "AttributeError")

call_get_instr_type ==
    /\ begin("get_instr_type", [kind |-> "call"])
    /\ IF protocol = "unset" THEN no_protocol(py("list", <<>>)) ELSE
       IF protocol = "acoem"
       THEN request(1, 0, <<>>, py("list", <<>>))
       ELSE unsupported(py("list", <<>>))

return_get_instr_type ==
    /\ resume("get_instr_type")
    /\ UNCHANGED polls
    /\ step' = step + 1
    /\ finish(py("list", _acoem_decode_response(comm_ret)), acc, err)

call_get_version ==
    /\ begin("get_version", [kind |-> "call"])
    /\ IF protocol = "unset" THEN no_protocol(py("list", <<>>)) ELSE
       IF protocol = "acoem"
       THEN request(1, 0, <<>>, py("list", <<>>))
       ELSE unsupported(py("list", <<>>))

return_get_version ==
    /\ resume("get_version")
    /\ UNCHANGED polls
    /\ step' = step + 1
    /\ finish(py("list", _acoem_decode_response(comm_ret)), acc, err)

(* self._logger.info(f"get_id: {resp}"): the attribute _logger is set with *)
(* _log, the statement raises AttributeError without it                    *)
logger_info == IF _log THEN err ELSE "AttributeError"

id_fields_once(instr_type, version) ==
    dict_zip(IdNames, IF last_id = <<>> THEN instr_type \o version ELSE version)

(* dict(zip([...six names...], instr_type + version)) *)
id_fields(instr_type, version) == dict_zip(IdNames, instr_type \o version)

(* the constructor after id = self.get_id(): `if id=={}: raise Warning(     *)
(* "Could not communicate with instrument. ...")`, which its handler logs  *)
(* and prints                                                              *)
could_not_communicate(id) ==
    IF DOMAIN value_of(id) = {} THEN "Warning" ELSE "none"

get_id_enter ==
    IF protocol = "acoem"
    THEN request(1, 0, <<>>, py("dict_str_int", dict_zip(IdNames, <<>>)))
    ELSE exchange(legacy_message(<<"I", "D">>, serial_id, <<>>), <<>>, "none")

call_get_id ==
    /\ begin("get_id", [kind |-> "call"])
    /\ IF protocol = "unset"
       THEN no_protocol(py("dict_str_str", dict_zip(<<>>, <<>>)))
       ELSE get_id_enter

(* the constructor: it reads the configuration and calls get_id; an        *)
(* exception that leaves get_id leaves the constructor (its handler starts *)
(* with `if self._log:` too), and no session exists then.  A protocol      *)
(* other than 'acoem' and 'legacy' in the configuration raises ValueError  *)
(* before self.__protocol is assigned and before get_id is called; the     *)
(* constructor's own handler logs it and the constructor returns.          *)
__init__ ==
    /\ pc = "init"
    /\ arg' = [kind |-> "call"]
    /\ step' = 0 /\ sent' = <<>> /\ polls' = 0
    /\ UNCHANGED <<elsewhere, serial_id, protocol, conns, _log, heard, last_id>>
    /\ IF protocol = "unset"
       THEN /\ fn' = "__init__" /\ finish(no_result, <<>>, "ValueError")
            /\ init_report' = (IF _log THEN "none" ELSE "running")
       ELSE fn' = "get_id" /\ get_id_enter /\ UNCHANGED init_report

return_get_id ==
    /\ resume("get_id")
    /\ UNCHANGED polls
    /\ IF protocol = "acoem"
       THEN IF step = 0
            THEN /\ exchange(_acoem_construct_message(1, 0, <<>>),
                             local("list", _acoem_decode_response(comm_ret)), err)
                 /\ step' = 1
            ELSE /\ finish(py("dict_str_int",
                               id_fields(value_of(acc), _acoem_decode_response(comm_ret))),
                           acc, logger_info)
                 /\ step' = 2
       ELSE /\ step' = 1
            /\ IF decode_ok(comm_ret)
               THEN finish(py("dict_str_str", dict_zip(<<"id">>, <<decode(comm_ret)>>)),
                           acc, logger_info)
               ELSE finish(py("dict_str_str", dict_zip(<<>>, <<>>)), acc,
                           "UnicodeDecodeError")
    /\ last_id' = (IF pc' = "idle" THEN <<heard, ret'.val>> ELSE last_id)
    /\ init_report' = (IF init_report = "running" /\ pc' = "idle"
                       THEN could_not_communicate(ret'.val) ELSE init_report)

call_get_values ==
    \E parameters \in GetValuesArgs :
        /\ begin("get_values", [parameters |-> parameters])
        /\ IF protocol = "unset" THEN no_protocol(py("dict_int_int", dict_zip(<<>>, <<>>))) ELSE
           IF protocol = "acoem"
           THEN IF get_values_raises(parameters)
                THEN finish(py("dict_int_int", dict_zip(<<>>, <<>>)), <<>>,
                            "OverflowError")
                ELSE exchange(get_values_message(parameters), <<>>, "none")
           ELSE LET items == legacy_skip(parameters, <<>>)
                IN  IF Len(items) = Len(parameters)
                    THEN finish(py("dict_int_str", dict_zip(parameters, items)),
                                local("strs", items), "none")
                    ELSE exchange(legacy_message(<<"V", "I">>, serial_id,
                                      format_02_0f(parameters[Len(items) + 1])),
                                  local("strs", items), "none")

return_get_values ==
    /\ resume("get_values")
    /\ UNCHANGED polls
    /\ step' = step + 1
    /\ IF protocol = "acoem"
       THEN finish(py("dict_int_int",
                      dict_zip(arg.parameters, _acoem_decode_response(comm_ret))),
                   acc, err)
       ELSE IF ~decode_ok(comm_ret)
            THEN finish(py("dict_int_str", dict_zip(<<>>, <<>>)), acc,
                        "UnicodeDecodeError")
            ELSE LET items == legacy_skip(arg.parameters,
                                          Append(value_of(acc), decode(comm_ret)))
                 IN  IF Len(items) = Len(arg.parameters)
                     THEN finish(py("dict_int_str", dict_zip(arg.parameters, items)),
                                 local("strs", items), err)
                     ELSE exchange(legacy_message(<<"V", "I">>, serial_id,
                                       format_02_0f(arg.parameters[Len(items) + 1])),
                                   local("strs", items), err)

call_set_values ==
    \E a \in SetValuesArgs :
        /\ begin("set_values", a)
        /\ IF protocol = "unset" THEN no_protocol(py("list", <<>>)) ELSE
           IF protocol = "acoem"
           THEN IF a.value \notin Byte
                THEN finish(py("list", <<>>), <<>>, "ValueError")
                ELSE request(5, a.parameter_id, <<0, 0, 0, a.value>>, py("list", <<>>))
           ELSE unsupported(py("list", <<>>))

return_set_values ==
    /\ resume("set_values")
    /\ UNCHANGED polls
    /\ step' = step + 1
    /\ finish(py("list", _acoem_decode_response(comm_ret)), acc, err)

call_get_logging_config ==
    /\ begin("get_logging_config", [kind |-> "call"])
    /\ IF protocol = "unset" THEN no_protocol(py("list", <<>>)) ELSE
       IF protocol = "acoem"
       THEN request(6, 0, <<>>, py("list", <<>>))
       ELSE unsupported(py("list", <<>>))

return_get_logging_config ==
    /\ resume("get_logging_config")
    /\ UNCHANGED polls
    /\ step' = step + 1
    /\ finish(py("list", _acoem_decode_response(comm_ret)), acc, err)

call_get_logged_data ==
    \E a \in LoggedDataArgs :
        /\ begin("get_logged_data", a)
        /\ IF protocol = "unset" THEN no_protocol(py("list_dict", <<>>)) ELSE
           IF protocol = "acoem"
           THEN IF a.start = <<>>
                THEN finish(py("list_dict", <<>>), <<>>, "ValueError")
                ELSE LET payload ==
                             _acoem_datetime_to_timestamp(a.start[1])
                                 \o (IF a.end = <<>> THEN <<>>
                                     ELSE _acoem_datetime_to_timestamp(a.end[1]))
                     IN  request(7, 0, payload, py("list_dict", <<>>))
           ELSE unsupported(py("list_dict", <<>>))

return_get_logged_data ==
    /\ resume("get_logged_data")
    /\ UNCHANGED polls
    /\ step' = step + 1
    /\ LET decoded == _acoem_decode_logged_data(comm_ret)
       IN  IF decoded.exc = "none"
           THEN finish(py("list_dict", decoded.val), acc, err)
           ELSE finish(py("list_dict", <<>>), acc, decoded.exc)

call_get_current_operation ==
    /\ begin("get_current_operation", [kind |-> "call"])
    /\ IF protocol = "unset" THEN no_protocol(py("int", 9)) ELSE
       IF protocol = "acoem"
       THEN request(4, 4035, <<>>, py("int", 9))
       ELSE exchange(legacy_message(<<"V", "I">>, serial_id, <<"7", "1">>), <<>>, "none")

return_get_current_operation ==
    /\ resume("get_current_operation")
    /\ UNCHANGED polls
    /\ step' = step + 1
    /\ IF protocol = "acoem"
       THEN LET items == _acoem_decode_response(comm_ret)
            IN  IF items = <<>>
                THEN finish(py("int", 9), acc, "IndexError")
                ELSE finish(py("int", items[1]), acc, err)
       ELSE IF ~decode_ok(comm_ret)
            THEN finish(py("int", 9), acc, "UnicodeDecodeError")
            ELSE IF decode(comm_ret) \in DOMAIN StateMapping
                 THEN finish(py("int", StateMapping[decode(comm_ret)]), acc, err)
                 ELSE finish(py("int", 9), acc, "KeyError")

(* up to the with-block: the set frame is built and the polling message   *)
(* is not yet                                                              *)
call_set_current_operation ==
    \E state \in States :
        /\ begin("set_current_operation", [state |-> state])
        /\ IF protocol = "unset" THEN no_protocol(py("int", 9)) ELSE
           IF protocol = "acoem"
           THEN IF state \notin Byte
                THEN finish(py("int", 9), <<>>, "ValueError")
                ELSE IF construct_message_raises(5, 4035, <<0, 0, 0, state>>)
                THEN finish(py("int", 9), <<>>, "OverflowError")
                ELSE /\ pc' = "set_connect"
                     /\ comm_msg' = _acoem_construct_message(5, 4035, <<0, 0, 0, state>>)
                     /\ acc' = <<>> /\ err' = "none" /\ ret' = no_result
                     /\ UNCHANGED <<tcp, rcvd, comm_ret, wire, peer>>
           ELSE unsupported(py("int", 9))

(* the with-block: a socket of its own and s.connect *)
set_connect ==
    /\ pc = "set_connect"
    /\ \E ok \in BOOLEAN :
          IF ok
          THEN /\ pc' = "set_send" /\ conns' = conns + 1
               /\ UNCHANGED <<ret, acc, err, tcp, comm_msg, rcvd, comm_ret, wire, peer>>
          ELSE /\ finish(py("int", 9), acc, "ConnectionRefusedError")
               /\ UNCHANGED conns
    /\ UNCHANGED <<elsewhere, serial_id, protocol, fn, arg, step, sent, polls, _log, heard,
                   last_id, init_report>>

set_send_keeps_socket ==
    /\ pc = "set_send"
    /\ UNCHANGED conns
    /\ \E ok \in BOOLEAN :
          IF ok
          THEN /\ sent' = log_append(sent, comm_msg)
               /\ exchange(_acoem_construct_message(4, 4035, <<>>), <<>>, err)
          ELSE /\ finish(py("int", 9), acc, "BrokenPipeError")
               /\ UNCHANGED sent
    /\ UNCHANGED <<elsewhere, serial_id, protocol, fn, arg, step, polls, _log, heard, last_id,
                   init_report>>

(* s.sendall, response = b'' and the end of the with-block, which closes   *)
(* the socket; then the first pass through the loop test and into          *)
(* tcpip_comm                                                              *)
set_send ==
    /\ pc = "set_send"
    /\ conns' = conns - 1
    /\ \E ok \in BOOLEAN :
          IF ok
          THEN /\ sent' = log_append(sent, comm_msg)
               /\ exchange(_acoem_construct_message(4, 4035, <<>>), <<>>, err)
          ELSE /\ finish(py("int", 9), acc, "BrokenPipeError")
               /\ UNCHANGED sent
    /\ UNCHANGED <<elsewhere, serial_id, protocol, fn, arg, step, polls, _log, heard, last_id,
                   init_report>>

(* a loop that gives up with the error value on an empty response *)
return_set_current_operation_strict ==
    /\ resume("set_current_operation")
    /\ step' = 1
    /\ polls' = Min(polls + 1, MaxPolls)
    /\ LET decoded == _acoem_decode_response(comm_ret)
       IN  IF poll_confirms(decoded, arg.state)
           THEN finish(py("int", arg.state), local("list", decoded), err)
           ELSE IF comm_ret = <<>>
           THEN finish(py("int", 9), local("list", decoded), err)
           ELSE exchange(_acoem_construct_message(4, 4035, <<>>),
                         local("list", decoded), err)

(* the loop body after tcpip_comm: decode, sleep, and the loop test again *)
return_set_current_operation ==
    /\ resume("set_current_operation")
    /\ step' = 1
    /\ polls' = Min(polls + 1, MaxPolls)
    /\ LET decoded == _acoem_decode_response(comm_ret)
       IN  IF poll_confirms(decoded, arg.state)
           THEN finish(py("int", arg.state), local("list", decoded), err)
           ELSE exchange(_acoem_construct_message(4, 4035, <<>>),
                         local("list", decoded), err)

call_get_datetime ==
    /\ begin("get_datetime", [kind |-> "call"])
    /\ IF protocol = "unset" THEN no_protocol(py("datetime", datetime(1111, 1, 1, 0, 0, 0))) ELSE
       IF protocol = "acoem"
       THEN request(4, 1, <<>>, py("datetime", datetime(1111, 1, 1, 0, 0, 0)))
       ELSE exchange(legacy_message(<<"V", "I">>, serial_id, <<"6", "4">>), <<>>, "none")

return_get_datetime ==
    /\ resume("get_datetime")
    /\ UNCHANGED polls
    /\ step' = step + 1
    /\ IF protocol = "acoem"
       THEN LET items == _acoem_decode_response(comm_ret)
            IN  IF items = <<>>
                THEN finish(py("datetime", datetime(1111, 1, 1, 0, 0, 0)), acc,
                            "IndexError")
                ELSE finish(py("datetime",
                               _acoem_timestamp_to_datetime(
                                   <<items[1] \div 65536, items[1] % 65536>>).val),
                            acc, logger_info)
       ELSE IF ~decode_ok(comm_ret)
            THEN finish(py("datetime", datetime(1111, 1, 1, 0, 0, 0)), acc,
                        "UnicodeDecodeError")
            ELSE LET texts == IF step = 0 THEN <<decode(comm_ret)>>
                              ELSE Append(value_of(acc), decode(comm_ret))
                 IN  CASE step = 0 ->
                            exchange(legacy_message(<<"V", "I">>, serial_id, <<"8", "0">>),
                                     local("strs", texts), err)
                       [] step = 1 ->
                            exchange(legacy_message(<<"V", "I">>, serial_id, <<"8", "1">>),
                                     local("strs", texts), err)
                       [] OTHER ->
                            finish(py("datetime",
                                      legacy_timestamp_to_datetime(texts[1], texts[2],
                                                                   texts[3])),
                                   local("strs", texts), logger_info)

call_set_datetime ==
    \E dtm \in SetDatetimeArgs :
        /\ begin("set_datetime", [dtm |-> dtm])
        /\ IF protocol = "unset" THEN no_protocol(py("bytes", <<>>)) ELSE
           IF protocol = "acoem"
           THEN request(5, 1, _acoem_datetime_to_timestamp(dtm), py("bytes", <<>>))
           ELSE unsupported(py("bytes", <<>>))

return_set_datetime ==
    /\ resume("set_datetime")
    /\ UNCHANGED polls
    /\ step' = step + 1
    /\ finish(py("bytes", comm_ret), acc, err)

call_reset ==
    /\ begin("reset", [kind |-> "call"])
    /\ IF protocol = "unset" THEN no_protocol(py("None", <<>>)) ELSE
       IF protocol = "acoem"
       THEN request(1, 0, REALLY, py("None", <<>>))
       ELSE exchange(encode(<<"*", "*", "B", "\r">>), <<>>, "none")

return_reset ==
    /\ resume("reset")
    /\ UNCHANGED polls
    /\ step' = step + 1
    /\ finish(py("None", <<>>), acc, err)

Init ==
    /\ serial_id \in SerialIds
    /\ protocol \in {"acoem", "legacy", "unset"}
    /\ _log \in BOOLEAN
    /\ fn = "none"
    /\ arg = [kind |-> "call"]
    /\ ret = no_result
    /\ pc = "init" /\ step = 0 /\ acc = <<>> /\ err = "none"
    /\ tcp = "none" /\ comm_msg = <<>> /\ rcvd = <<>> /\ comm_ret = <<>>
    /\ wire = <<>> /\ peer = "open" /\ sent = <<>> /\ polls = 0 /\ conns = 0
    /\ heard = <<>> /\ last_id = <<>> /\ init_report = "running"
    /\ elsewhere_idle

Next ==
    \/ __init__
    \/ call_get_instr_type \/ return_get_instr_type
    \/ call_get_version \/ return_get_version
    \/ call_get_id \/ return_get_id
    \/ call_get_values \/ return_get_values
    \/ call_set_values \/ return_set_values
    \/ call_get_logging_config \/ return_get_logging_config
    \/ call_get_logged_data \/ return_get_logged_data
    \/ call_get_current_operation \/ return_get_current_operation
    \/ call_set_current_operation \/ set_connect \/ set_send
    \/ return_set_current_operation
    \/ call_get_datetime \/ return_get_datetime
    \/ call_set_datetime \/ return_set_datetime
    \/ call_reset \/ return_reset
    \/ tcp_connect \/ tcp_clear \/ tcp_send \/ tcp_recv

Spec == Init /\ [][Next]_vars

(* the calling thread keeps running: a socket call returns or times out,  *)
(* and the operation goes on from there                                    *)
LiveSpec == Spec /\ WF_vars(Next)

----------------------------------------------------------------------------
(* Reference definitions the properties are stated with.                   *)

BigEndian4(n) ==
    <<n \div 16777216, (n \div 65536) % 256, (n \div 256) % 256, n % 256>>

(* a frame is well-formed: STX first, EOT last, the length field is the    *)
(* byte length of the message data, the checksum is the XOR of all bytes   *)
(* before it                                                               *)
FrameLengthOk(f) == Len(f) >= 8 /\ f[5] * 256 + f[6] = Len(f) - 8
FrameChecksumOk(f) == Len(f) >= 8 /\ f[Len(f) - 1] = XorAll(SubSeq(f, 1, Len(f) - 2))
WellFormed(f) ==
    /\ FrameLengthOk(f) /\ FrameChecksumOk(f)
    /\ f[1] = 2 /\ f[Len(f)] = 4

(* the two frames of set_current_operation *)
IsSetFrame(f, state) ==
    /\ Len(f) = 16 /\ f[3] = 5
    /\ SubSeq(f, 7, 10) = BigEndian4(4035) /\ SubSeq(f, 11, 14) = <<0, 0, 0, state>>
IsPollFrame(f) ==
    Len(f) = 12 /\ f[3] = 4 /\ SubSeq(f, 7, 10) = BigEndian4(4035)

IsData(rk) == rk \in {"D1", "D2"}
IsHeader(rk) == rk \in {"HS", "HL", "HM"}

record_datetime(rk) ==
    CASE rk = "D1" -> datetime(2024, 5, 6, 7, 8, 9)
      [] rk = "D2" -> datetime(2040, 12, 31, 23, 59, 59)

----------------------------------------------------------------------------
(* C1: for every station id, command, parameter id p >= 0 (below 2^31     *)
(* here) and payload, _acoem_construct_message returns                     *)
(* [2, sid, c, 3] ++ big-endian 2-byte len(msg_data) ++ msg_data ++        *)
(* checksum ++ [4] with msg_data = (4-byte big-endian p if p > 0) ++       *)
(* payload; command 1 alone gives [2, sid, 1, 3, 0, 0, 2^sid^1^3, 4].      *)
C1_FrameLayout ==
    fn = "_acoem_construct_message" =>
        LET out      == ret.val
            msg_data == (IF arg.parameter_id > 0 THEN BigEndian4(arg.parameter_id)
                         ELSE <<>>) \o arg.payload
            n        == Len(msg_data)
        IN  /\ ret.exc = "none"
            /\ Len(out) = n + 8
            /\ SubSeq(out, 1, 4) = <<2, serial_id, arg.command, 3>>
            /\ out[5] * 256 + out[6] = n
            /\ SubSeq(out, 7, 6 + n) = msg_data
            /\ out[7 + n] = XorAll(SubSeq(out, 1, 6 + n))
            /\ out[8 + n] = 4
            /\ (arg.command = 1 /\ arg.parameter_id = 0 /\ arg.payload = <<>> =>
                    /\ out = <<2, serial_id, 1, 3, 0, 0, XorAll(<<2, serial_id, 1, 3>>), 4>>
                    /\ (serial_id = 5 => out = <<2, 5, 1, 3, 0, 0, 5, 4>>))

C1_Witness ==
    /\ fn = "_acoem_construct_message"
    /\ arg.parameter_id = 4035 /\ arg.payload = <<0, 0, 0, 1>> /\ arg.command = 5
    /\ ret.val = <<2, serial_id, 5, 3, 0, 8, 0, 0, 15, 195, 0, 0, 0, 1>>
                     \o <<XorAll(<<2, serial_id, 5, 3, 0, 8, 0, 0, 15, 195, 0, 0, 0, 1>>), 4>>

(* C4: timestamp round trip: for every calendar-valid t with year in       *)
(* 2000..2063 the encoder returns exactly 4 bytes and decoding them gives  *)
(* t back.                                                                 *)
C4_RoundTrip ==
    (fn = "_acoem_datetime_to_timestamp" /\ arg.dtm.year \in 2000..2063) =>
        /\ Len(ret.val) = 4
        /\ _acoem_timestamp_to_datetime(from_bytes_wide(ret.val)) =
               [exc |-> "none", val |-> arg.dtm]

(* C5: the decoded sequence of a command-7 response holds exactly one      *)
(* entry per data record, in the order of the data records; header records *)
(* and records of other types add none.                                    *)
C5_OneEntryPerDataRecord ==
    (fn = "_acoem_decode_logged_data" /\ arg.command = 7 /\ arg.damage = "none"
        /\ ret.exc = "none") =>
        LET datas == SelectSeq(arg.recs, IsData)
        IN  /\ Len(ret.val) = Len(datas)
            /\ \A k \in 1..Len(datas) :
                   /\ ret.val[k].dtm = strftime(record_datetime(datas[k]))
                   /\ ret.val[k].logging_interval = <<record_interval(datas[k])>>

(* C6: one header record with n parameter ids, all above 1000, followed by *)
(* one data record with n value slots yields a logged record that maps     *)
(* every header id, the last included, to the float of its own slot, with  *)
(* the decoded timestamp and the logging interval.                         *)
C6_HeaderThenData ==
    (fn = "_acoem_decode_logged_data" /\ arg.command = 7 /\ arg.damage = "none"
        /\ arg.extra = 0 /\ Len(arg.recs) = 2
        /\ arg.recs[1] \in {"HS", "HL"} /\ IsData(arg.recs[2])) =>
        LET keys   == header_keys(arg.recs[1], arg.nfields)
            slots  == data_slots(arg.recs[2], arg.nfields)
            wanted == [params |-> [k \in {keys[j] : j \in 1..arg.nfields} |->
                                     unpack_f(slots[CHOOSE j \in 1..arg.nfields : keys[j] = k])],
                       dtm |-> strftime(record_datetime(arg.recs[2])),
                       logging_interval |-> <<record_interval(arg.recs[2])>>]
        IN  /\ ret.exc = "none"
            /\ \E i \in 1..Len(ret.val) : ret.val[i] = wanted

(* C9 as claimed: a response whose length field differs from the byte      *)
(* length of its message data, or whose checksum byte is wrong, yields no  *)
(* decoded values from either decoder.                                     *)
C9_MalformedRejected ==
    /\ (fn = "_acoem_decode_response" /\ ~(FrameLengthOk(arg.response)
                                            /\ FrameChecksumOk(arg.response)))
           => ret.val = <<>>
    /\ (fn = "_acoem_decode_logged_data" /\ ~(FrameLengthOk(arg.response)
                                               /\ FrameChecksumOk(arg.response)))
           => \A i \in 1..Len(ret.val) : ret.val[i] = dict_empty

(* C9 as amended: neither decoder validates the frame.  A response with a  *)
(* wrong checksum byte and a right length field is decoded exactly like    *)
(* the same response with the right checksum; _acoem_decode_response       *)
(* returns as many items as the length field says (a quarter of it) even   *)
(* when that differs from the byte length of the message data.             *)
C9_DecodersDoNotValidate ==
    /\ fn = "_acoem_decode_response" =>
           /\ Len(ret.val) = (arg.response[5] * 256 + arg.response[6]) \div 4
           /\ (FrameLengthOk(arg.response) => ret.val = arg.items)
    /\ (fn = "_acoem_decode_logged_data" /\ arg.damage = "checksum") =>
           /\ ~FrameChecksumOk(arg.response)
           /\ ret = _acoem_decode_logged_data(
                        logged_response(serial_id, arg.command, arg.recs,
                                        arg.nfields, arg.extra, "none"))

C9_Witness ==
    /\ fn = "_acoem_decode_response"
    /\ FrameLengthOk(arg.response) /\ ~FrameChecksumOk(arg.response)
    /\ ret.val = <<4035, 1>>

(* C10: _acoem_timestamp_to_datetime reports a decode failure, and returns *)
(* no date-time value, for every packed timestamp whose fields are not a   *)
(* calendar date-time.                                                     *)
C10_DecodeFailureReported ==
    LET f == timestamp_fields(arg.timestamp)
    IN  (fn = "_acoem_timestamp_to_datetime"
            /\ ~datetime_ok(f[1], f[2], f[3], f[4], f[5], f[6])) =>
            ret.exc # "none"

(* C2: under the binary dialect every message a session operation hands to *)
(* tcpip_comm or to a socket is a well-formed frame: STX first, EOT last,  *)
(* the length field equal to the byte length of the message data, the      *)
(* checksum byte equal to the XOR of all bytes before it.                  *)
C2_FramesWellFormed ==
    protocol = "acoem" =>
        /\ \A i \in 1..Len(sent) : WellFormed(sent[i])
        /\ pc \in {"set_connect", "set_send", "tcpip_comm"} => WellFormed(comm_msg)

C2_Witness ==
    /\ protocol = "acoem" /\ fn = "get_values" /\ pc = "idle"
    /\ arg.parameters = <<71, 1635000>>
    /\ Len(sent) = 1 /\ Len(sent[1]) = 16 /\ WellFormed(sent[1])

(* C3 as claimed: under the binary dialect a non-empty response returned   *)
(* by tcpip_comm ends with the EOT byte 0x04, also when the reply arrives  *)
(* in several chunks.                                                      *)
C3_ResponseEndsWithEOT ==
    (protocol = "acoem" /\ pc = "returned" /\ comm_ret # <<>>) =>
        comm_ret[Len(comm_ret)] = 4

(* C7: under the binary dialect set_current_operation(state) sends the set *)
(* frame (command 5, parameter 4035, value state) exactly once and as its  *)
(* first message, every later message is the get-state poll (command 4,    *)
(* parameter 4035), no exchange starts before the set frame is sent, and   *)
(* it returns state only after at least one poll whose reply decoded to    *)
(* exactly [state]. (9 is the value the exception handler returns: a       *)
(* returned 9 reports an error, whatever state was asked for.)             *)
C7_SetThenPollUntilConfirmed ==
    (protocol = "acoem" /\ fn = "set_current_operation") =>
        /\ \A i \in 1..Len(sent) : IsSetFrame(sent[i], arg.state) <=> (i = 1)
        /\ \A i \in 2..Len(sent) : IsPollFrame(sent[i])
        /\ (pc \in {"tcpip_comm", "returned"} \/ polls > 0) => Len(sent) >= 1
        /\ (pc = "idle" /\ arg.state # 9 /\ ret = py("int", arg.state)) =>
               /\ polls >= 1 /\ Len(sent) >= 2
               /\ acc = local("list", <<arg.state>>)

C7_Witness ==
    /\ protocol = "acoem" /\ fn = "set_current_operation" /\ pc = "idle"
    /\ arg.state = 1 /\ ret = py("int", 1) /\ polls = 2
    /\ Len(sent) = 3 /\ acc = local("list", <<1>>)

(* C8 as claimed: set_current_operation always terminates, also when the   *)
(* instrument never reports the requested state.                           *)
C8_Terminates ==
    (fn = "set_current_operation" /\ pc # "idle") ~> (pc = "idle")

(* C11 as claimed: _acoem_datetime_to_timestamp reports an error, and      *)
(* returns no byte string, exactly when the year is below 2000 or above    *)
(* 2063 (the largest year of the 6-bit year field); for every other year   *)
(* it returns the 4 bytes of the packed timestamp.                         *)
C11_RangeErrorExactlyOutOfRange ==
    fn = "_acoem_datetime_to_timestamp" =>
        IF arg.dtm.year < 2000 \/ arg.dtm.year > 2063
        THEN ret.exc # "none"
        ELSE ret.exc = "none" /\ Len(ret.val) = 4

(* the 4 bytes of the packed timestamp of a date-time of the years 2000..2063 *)
timestamp_of(dtm) ==
    packed_timestamp(dtm.year - 2000, dtm.month, dtm.day, dtm.hour, dtm.minute,
                     dtm.second)

(* C12 as claimed: every message get_logged_data(start, end) sends is a    *)
(* command-7 frame whose message data is the 8 bytes encode(start) ++      *)
(* encode(end); when start is absent nothing is sent and the call ends     *)
(* with the ValueError of the invalid argument.                            *)
C12_RequestIsStartThenEnd ==
    (protocol = "acoem" /\ fn = "get_logged_data") =>
        /\ \A i \in 1..Len(sent) :
               /\ sent[i][3] = 7 /\ Len(sent[i]) = 16
               /\ arg.start # <<>> /\ arg.end # <<>>
               /\ SubSeq(sent[i], 7, 14) =
                      timestamp_of(arg.start[1]) \o timestamp_of(arg.end[1])
        /\ arg.start = <<>> =>
               /\ sent = <<>>
               /\ pc = "idle" /\ err = "ValueError"

(* C13 as claimed: under the binary dialect get_current_operation returns  *)
(* only 0, 1, 2 or 9: the integer the instrument reports when that is 0, 1 *)
(* or 2, and 9 for every other reported integer and for every failure.     *)
C13_OnlyDocumentedStates ==
    (protocol = "acoem" /\ fn = "get_current_operation" /\ pc = "idle") =>
        ret \in {py("int", state) : state \in {0, 1, 2, 9}}

(* C14: under the legacy dialect get_current_operation returns 0 for the   *)
(* reply "000", 1 for "032" and 2 for "016" (the reply being what          *)
(* tcpip_comm returned); for every other reply, the empty reply of a       *)
(* failed exchange included, it returns the error value 9.                 *)
C14_LegacyStateMapping ==
    [][(protocol = "legacy" /\ fn = "get_current_operation"
            /\ pc = "returned" /\ pc' = "idle") =>
           ret' = py("int", CASE comm_ret = <<48, 48, 48>> -> 0
                              [] comm_ret = <<48, 51, 50>> -> 1
                              [] comm_ret = <<48, 49, 54>> -> 2
                              [] OTHER -> 9)]_vars

C14_Witness ==
    /\ protocol = "legacy" /\ fn = "get_current_operation" /\ pc = "idle"
    /\ sent = <<encode(<<"V", "I">> \o str_int(serial_id) \o <<"7", "1", "\r">>)>>
    /\ ret = py("int", 1)

InRange(parameters) == {i \in 1..Len(parameters) : parameters[i] \in 0..99}

(* C16: under the legacy dialect get_values(ids) makes one exchange for    *)
(* each id in [0, 100), with the VI command of that id, and none for any   *)
(* other id; unless a reply cannot be decoded it returns an entry for      *)
(* every id, the empty string for every id >= 100, and for an id in range  *)
(* the decoded reply of that id's exchange, whatever other ids were asked. *)
C16_LegacyOneExchangePerIdInRange ==
    /\ [](protocol = "legacy" /\ fn = "get_values" =>
            LET ids == arg.parameters
            IN  /\ step + (IF pc = "idle" THEN 0 ELSE 1) <= Cardinality(InRange(ids))
                /\ Len(sent) <= step + 1
                /\ \A k \in 1..Len(sent) :
                       sent[k] = encode(<<"V", "I">> \o str_int(serial_id)
                                          \o format_02_0f(ids[nth(InRange(ids), k)])
                                          \o <<"\r">>)
                /\ (pc = "idle" /\ err # "UnicodeDecodeError") =>
                       /\ step = Cardinality(InRange(ids))
                       /\ ret.val[1] = "dict_int_str"
                       /\ DOMAIN ret.val[2] = {ids[i] : i \in 1..Len(ids)}
                       /\ \A i \in 1..Len(ids) :
                              /\ i \notin InRange(ids) => ret.val[2][ids[i]] = <<>>
                              /\ ret.val[2][ids[i]] = value_of(acc)[i])
    /\ [][(protocol = "legacy" /\ fn = "get_values" /\ pc = "returned"
              /\ pc' # "returned" /\ decode_ok(comm_ret)) =>
             LET i == nth(InRange(arg.parameters), step + 1)
             IN  /\ value_of(acc')[i] = decode(comm_ret)
                 /\ \A j \in 1..Len(value_of(acc)) :
                        value_of(acc')[j] = value_of(acc)[j]]_vars

C16_Witness ==
    /\ protocol = "legacy" /\ fn = "get_values" /\ pc = "idle"
    /\ arg.parameters = <<4035, 71>> /\ step = 1 /\ Len(sent) = 1
    /\ ret = py("dict_int_str", dict_zip(<<4035, 71>>, <<<<>>, <<"0", "1", "6">>>>))

(* C17 as claimed: under the binary dialect set_values(parameter_id,       *)
(* value) builds, for every value in 0..2^32-1, the command-5 frame whose  *)
(* message data is the 4-byte big-endian parameter_id followed by the      *)
(* 4-byte big-endian value: no value of that range is rejected, and every  *)
(* frame sent has that message data.                                       *)
C17_ValueIsFourBytesBigEndian ==
    (protocol = "acoem" /\ fn = "set_values" /\ arg.value \in 0..2147483647) =>
        /\ err # "ValueError"
        /\ \A i \in 1..Len(sent) :
               /\ sent[i][3] = 5 /\ Len(sent[i]) = 16
               /\ SubSeq(sent[i], 7, 10) = BigEndian4(arg.parameter_id)
               /\ SubSeq(sent[i], 11, 14) = BigEndian4(arg.value)

(* the operations that have no legacy branch, and the value each returns  *)
(* from its exception handler                                             *)
BinaryOnly ==
    {"set_values", "get_logging_config", "get_logged_data", "set_current_operation",
     "set_datetime", "get_instr_type", "get_version"}

FailureValue(op) ==
    CASE op = "get_logged_data"       -> py("list_dict", <<>>)
      [] op = "set_current_operation" -> py("int", 9)
      [] op = "set_datetime"          -> py("bytes", <<>>)
      [] OTHER                        -> py("list", <<>>)

C19_OneConnectionPerExchange ==
    /\ [](/\ conns \in {0, 1}
          /\ pc \in {"init", "idle", "set_connect", "returned", "raised"} => conns = 0
          /\ pc = "set_send" => conns = 1
          /\ pc = "tcpip_comm" => conns = (IF tcp = "connect" THEN 0 ELSE 1))
    /\ [][/\ tcp' = "send" => tcp \in {"clear", "send"}
          /\ tcp = "recv" => tcp' \in {"recv", "none"}
          /\ sent' # sent =>
                 \/ pc = "tcpip_comm" /\ tcp = "send" /\ tcp' = "recv"
                 \/ pc = "set_send"
                 \/ pc \in {"init", "idle"} /\ sent' = <<>>
          /\ (pc = "tcpip_comm" /\ pc' = "returned" /\ comm_ret' # <<>>) =>
                 tcp = "recv"]_vars

C19_Witness ==
    /\ fn = "set_current_operation" /\ pc = "tcpip_comm" /\ tcp = "recv"
    /\ polls = 1 /\ Len(sent) = 3 /\ conns = 1

(* C20 as claimed: no exception leaves an operation, whether or not        *)
(* logging was configured: every operation ends by returning a value.      *)
C20_NoExceptionEscapes == pc # "raised"

(* C21 as claimed: every tcpip_comm call ends, in both dialects, also when *)
(* no terminator arrives before the timeout or when the peer closes the    *)
(* connection and every read returns zero bytes.                           *)
C21_TcpipCommTerminates ==
    (pc = "tcpip_comm") ~> (pc # "tcpip_comm")

(* C22 as claimed: for every response whose command byte (offset 2) is not *)
(* 7, _acoem_decode_logged_data returns an empty sequence, a list of zero  *)
(* entries.                                                                *)
C22_OtherCommandGivesNoEntries ==
    (/\ fn = "_acoem_decode_logged_data"
     /\ Len(arg.response) >= 3 /\ arg.response[3] # 7) =>
        (ret.exc = "none" /\ Len(ret.val) = 0)

(* C23 as claimed: under the binary dialect get_id makes exactly two       *)
(* exchanges, whose frames are command-1 frames (a frame is on the wire    *)
(* for each exchange whose transport did not fail before the send), and    *)
(* returns a mapping in which Model, Variant,                              *)
(* Sub-Type and Range hold the integers of the instrument-type response    *)
(* and Build and Branch those of the version response; a value decoded     *)
(* from the version response is never stored under one of the first four   *)
(* names, also when the first exchange fails or returns fewer than four    *)
(* integers.                                                               *)
C23_IdFieldsFromTheirResponse ==
    [][(protocol = "acoem" /\ fn = "get_id" /\ pc = "returned" /\ step = 1
           /\ pc' = "idle") =>
          LET instr_type == value_of(acc)
              version    == _acoem_decode_response(comm_ret)
              resp       == value_of(ret'.val)
          IN  /\ Len(sent') <= 2
              /\ err = "none" => Len(sent') = 2
              /\ \A i \in 1..Len(sent') : WellFormed(sent'[i]) /\ sent'[i][3] = 1
              /\ \A i \in 1..4 :
                     IdNames[i] \in DOMAIN resp =>
                         i <= Len(instr_type) /\ resp[IdNames[i]] = instr_type[i]
              /\ \A i \in 5..6 :
                     IdNames[i] \in DOMAIN resp =>
                         i - 4 <= Len(version) /\ resp[IdNames[i]] = version[i - 4]]_vars

(* C24: identification is idempotent.  A get_id call starts from the same  *)
(* session state whatever was called before it (no local result, no        *)
(* buffer, no socket, the same request), and a get_id call that follows a  *)
(* returned get_id call and meets the same transport and instrument        *)
(* behaviour at every socket call returns the result the first one         *)
(* returned, in both dialects.                                             *)
C24_IdentifyIdempotent ==
    /\ [](fn = "get_id" /\ pc = "tcpip_comm" /\ step = 0 /\ tcp = "connect" =>
            /\ acc = <<>> /\ err = "none" /\ sent = <<>> /\ polls = 0
            /\ rcvd = <<>> /\ comm_ret = <<>> /\ conns = 0 /\ heard = <<>>
            /\ comm_msg = (IF protocol = "acoem"
                           THEN _acoem_construct_message(1, 0, <<>>)
                           ELSE legacy_message(<<"I", "D">>, serial_id, <<>>)))
    /\ [][(fn = "get_id" /\ pc = "returned" /\ pc' = "idle"
              /\ last_id # <<>> /\ last_id[1] = heard) =>
             ret'.val = last_id[2]]_vars

(* the second of two get_id calls has heard what the first one heard, a    *)
(* complete answer to each request, and is about to return                 *)
C24_Witness ==
    /\ fn = "get_id" /\ pc = "returned" /\ last_id # <<>> /\ last_id[1] = heard
    /\ comm_ret # <<>>
    /\ IF protocol = "acoem"
       THEN step = 1 /\ Len(heard) = 6 /\ DOMAIN last_id[2][2] = {IdNames[i] : i \in 1..6}
       ELSE Len(heard) = 3 /\ DOMAIN last_id[2][2] = {"id"}

(* C25 as claimed: the dialect of a session is chosen at construction and  *)
(* is 'acoem' or 'legacy'; no operation changes it, and every operation    *)
(* of the session dispatches on it: none ends with the AttributeError of   *)
(* a dialect that was never set.                                           *)
C25_DialectChosenOnceAndFixed ==
    /\ [](pc \notin {"init", "raised"} =>
            /\ protocol \in {"acoem", "legacy"}
            /\ fn # "__init__" => err # "AttributeError")
    /\ [][protocol' = protocol]_vars

(* C26 as claimed: driver instances share no mutable state.  No step that  *)
(* constructs or operates a driver instance changes the name, the          *)
(* connection settings, the data directory or the staging settings that    *)
(* are observed through an instance constructed before.                    *)
C26_InstancesIndependent ==
    [][\A i \in 1..Len(objects) : \A a \in Settings :
           getattr(i, a)' = getattr(i, a)]_vars

----------------------------------------------------------------------------
(* C27: _checksum is the XOR fold of its input bytes starting from 0: it   *)
(* returns a single byte for every input, 0 for the empty input, the       *)
(* checksum of a ++ b is checksum(a) XOR checksum(b), and the checksum of  *)
(* x followed by checksum(x) is 0.                                         *)
C27_ChecksumIsXorFold ==
    fn = "_checksum" =>
        /\ ret.exc = "none"
        /\ \A part \in {"a", "b", "ab", "closed"} :
              Len(ret.val[part]) = 1 /\ ret.val[part][1] \in Byte
        /\ ret.val.a[1] = XorAll(arg.a)
        /\ ret.val.ab[1] = XorAll(arg.a \o arg.b)
        /\ (arg.a = <<>> => ret.val.a = <<0>>)
        /\ ret.val.ab[1] = Xor(ret.val.a[1], ret.val.b[1])
        /\ ret.val.closed = <<0>>

C27_Witness ==
    /\ fn = "_checksum"
    /\ arg.a = <<4, 255>> /\ arg.b = <<126>>
    /\ ret.val.a = <<251>> /\ ret.val.b = <<126>> /\ ret.val.ab = <<133>>

----------------------------------------------------------------------------
(* C28: AE33.stage_file stages a data file only when it is no longer       *)
(* written to: over any sequence of get_new_data and stage_file calls, a   *)
(* file is copied or zipped into the staging area only after the current   *)
(* data-file path has changed to a different path, the file currently      *)
(* being written is never staged (and no staged file is appended to        *)
(* afterwards), and each completed file is staged at most once.            *)
C28_StagedOnlyWhenComplete ==
    /\ [](/\ \A i \in 1..Len(staged) :
                /\ staged[i].file # 0
                /\ staged[i].file # staged[i].datafile
                /\ \A j \in 1..Len(staged) :
                      staged[i].file = staged[j].file => i = j
          /\ datafile \notin StagedFiles
          /\ late = {})
    /\ [][staged' # staged =>
            /\ staged' = Append(staged, [file |-> file_to_stage,
                                         datafile |-> datafile', zip |-> zip])
            /\ file_to_stage \in written
            /\ file_to_stage # datafile'
            /\ file_to_stage' = datafile']_vars

C28_Witness ==
    /\ staged = <<[file |-> 1, datafile |-> 2, zip |-> TRUE],
                  [file |-> 2, datafile |-> 3, zip |-> TRUE]>>
    /\ datafile = 3 /\ file_to_stage = 3 /\ written = {1, 2, 3}

(* C29: AE33.get_new_data retrieves all records that have not been read:   *)
(* the fetched id ranges [begin, maxid] are contiguous and do not overlap  *)
(* (each call begins at the previous call's maxid + 1), and the read       *)
(* position advances past a record only when that record was retrieved,    *)
(* so that a failed FETCH exchange loses no record.                        *)
C29_AllUnreadRecordsRetrieved ==
    /\ \A i \in 2..Len(fetched) : fetched[i][1] = fetched[i - 1][2] + 1
    /\ fetched # <<>> =>
          \A id \in fetched[1][1]..(data_begin_read_id - 1) : id \in retrieved

(* C30: SFTPClient.transfer_files removes a local file only after that     *)
(* file's upload returned and the reported remote size equals the local    *)
(* size; when remove_on_success is false, or the upload failed or the      *)
(* sizes differ, the local file is left in place.                          *)
C30_RemovedOnlyAfterConfirmedUpload ==
    [][\A f \in Files :
          (local_files[f] # -1 /\ local_files'[f] = -1) =>
              /\ remove_on_success
              /\ walk # <<>> /\ Head(walk) = f
              /\ last_put'.file = f /\ last_put'.returned
              /\ last_put'.dst_size = last_put'.src_size
              /\ last_put'.dst_size = remote_files'[f]
              /\ last_put'.src_size >= local_files[f]]_vars

C30_Witness ==
    /\ remove_on_success
    /\ last_put = [file |-> 2, returned |-> TRUE, src_size |-> 2, dst_size |-> 2]
    /\ local_files[2] = -1 /\ remote_files[2] = 2
    /\ local_files[1] = 2 /\ remote_files[1] = 1

----------------------------------------------------------------------------
(* the big-endian value of the bytes of s at the 0-based positions i..j-1  *)
(* that exist                                                              *)
BigEndianAt(s, i, j) ==
    LET last == Min(j, Len(s))
        value[k \in i..j] ==
            IF k = i \/ k > last THEN 0 ELSE value[k - 1] * 256 + s[k]
    IN  IF last <= i THEN 0 ELSE value[last]

LengthField(response) == response[5] * 256 + response[6]

(* C31 as stated: _acoem_decode_response treats the big-endian value N in  *)
(* bytes [4:6) of the response as a count of 4-byte words and returns      *)
(* exactly N integers, the i-th being the big-endian value of bytes        *)
(* [6+4i, 10+4i).                                                          *)
C31_LengthFieldCountsWords ==
    fn = "_acoem_decode_response" =>
        /\ Len(ret.val) = LengthField(arg.response)
        /\ \A i \in 0..(Len(ret.val) - 1) :
              ret.val[i + 1] = BigEndianAt(arg.response, 6 + 4 * i, 10 + 4 * i)

(* C31 amended: _acoem_decode_response treats the big-endian value N in    *)
(* bytes [4:6) of the response as a count of bytes and returns exactly     *)
(* N div 4 integers, the i-th (from 0) being the big-endian value of bytes *)
(* [6+4i, 10+4i) of the response, as far as these bytes exist.             *)
C31_LengthFieldCountsBytes ==
    fn = "_acoem_decode_response" =>
        /\ ret.exc = "none"
        /\ Len(ret.val) = LengthField(arg.response) \div 4
        /\ \A i \in 0..(Len(ret.val) - 1) :
              ret.val[i + 1] = BigEndianAt(arg.response, 6 + 4 * i, 10 + 4 * i)

C31_Witness ==
    /\ fn = "_acoem_decode_response"
    /\ arg.damage = "none" /\ arg.items = <<4035, 1>>
    /\ LengthField(arg.response) = 8
    /\ ret.val = <<4035, 1>>

(* C32: _acoem_timestamp_to_datetime extracts from a packed 32-bit         *)
(* timestamp raw: second = raw mod 64, minute = (raw div 2^6) mod 64,      *)
(* hour = (raw div 2^12) mod 32, day = (raw div 2^17) mod 32,              *)
(* month = (raw div 2^22) mod 16, year = 2000 + raw div 2^26, and          *)
(* _acoem_datetime_to_timestamp places the same fields at the same bit     *)
(* positions.  raw is hi * 2^16 + lo; the fields are stated on hi and lo.  *)
C32_FieldsAtBitPositions ==
    /\ fn = "_acoem_timestamp_to_datetime" =>
          LET hi == arg.timestamp[1]
              lo == arg.timestamp[2]
              year   == 2000 + hi \div 1024
              month  == (hi \div 64) % 16
              day    == (hi \div 2) % 32
              hour   == (hi % 2) * 16 + lo \div 4096
              minute == (lo \div 64) % 64
              second == lo % 64
          IN  datetime_ok(year, month, day, hour, minute, second) =>
                  ret.val = datetime(year, month, day, hour, minute, second)
    /\ (fn = "_acoem_datetime_to_timestamp" /\ arg.dtm.year \in 2000..2063) =>
          LET t  == arg.dtm
              hi == (t.year - 2000) * 1024 + t.month * 64 + t.day * 2 + t.hour \div 16
              lo == (t.hour % 16) * 4096 + t.minute * 64 + t.second
          IN  ret.val = <<hi \div 256, hi % 256, lo \div 256, lo % 256>>

(* C33: in _acoem_decode_logged_data the number of records processed is    *)
(* floor(message_length / items_per_record) with items_per_record =        *)
(* fields_per_record + 4 taken from the first record; a payload that ends  *)
(* with a partial trailing record is decoded without failure, the complete *)
(* records before it are still returned and the partial record is dropped. *)
(* (The result holds one entry per record processed after its first entry.)*)
C33_PartialTrailingRecordDropped ==
    (fn = "_acoem_decode_logged_data" /\ arg.command = 7 /\ arg.damage = "none") =>
        LET message_length   == LengthField(arg.response) \div 4
            items_per_record == BigEndianAt(arg.response, 18, 22) + 4
        IN  /\ ret.exc = "none" =>
                  Len(ret.val) = 1 + message_length \div items_per_record
            /\ arg.extra # 0 =>
                  /\ message_length % items_per_record # 0
                  /\ ret.exc = "none"
                  /\ ret = _acoem_decode_logged_data(
                               logged_response(serial_id, arg.command, arg.recs,
                                               arg.nfields, 0, "none"))

(* the header record that precedes record i of recs most recently (0 when  *)
(* there is none)                                                          *)
RecentHeader(recs, i) ==
    IF \E h \in 1..(i - 1) : IsHeader(recs[h])
    THEN CHOOSE h \in 1..(i - 1) :
             IsHeader(recs[h]) /\ \A h2 \in (h + 1)..(i - 1) : ~IsHeader(recs[h2])
    ELSE 0

(* C34: in a command-7 payload with several header records, every data     *)
(* record is keyed by the parameter-id list of the most recent header      *)
(* record that precedes it, never by an earlier or a later header.  (The   *)
(* entry of record i is entry i + 1 of the result.)                        *)
C34_KeyedByMostRecentHeader ==
    (fn = "_acoem_decode_logged_data" /\ arg.command = 7 /\ arg.damage = "none"
        /\ ret.exc = "none") =>
        \A i \in 1..Len(arg.recs) :
            IsData(arg.recs[i]) =>
                LET h    == RecentHeader(arg.recs, i)
                    keys == IF h = 0 THEN <<>> ELSE header_keys(arg.recs[h], arg.nfields)
                IN  DOMAIN ret.val[i + 1].params = {keys[j] : j \in 1..Len(keys)}

(* C35: in every decoded logged record, a parameter id k > 1000 is bound   *)
(* to the big-endian IEEE-754 float of its 4-byte slot and a parameter id  *)
(* k <= 1000 is bound to the empty value; decoding a record never fails    *)
(* because of the byte length of a value slot.                             *)
C35_FloatAboveThousandElseEmpty ==
    (fn = "_acoem_decode_logged_data" /\ arg.command = 7 /\ arg.damage = "none") =>
        /\ ret.exc # "struct.error"
        /\ ret.exc = "none" =>
              \A i \in 1..Len(arg.recs) :
                  (IsData(arg.recs[i]) /\ RecentHeader(arg.recs, i) # 0) =>
                      LET params == ret.val[i + 1].params
                          keys   == header_keys(arg.recs[RecentHeader(arg.recs, i)],
                                                arg.nfields)
                          slots  == data_slots(arg.recs[i], arg.nfields)
                      IN  /\ \A k \in DOMAIN params :
                                 IF k > 1000 THEN params[k].kind = "float"
                                 ELSE params[k] = bytes_empty
                          /\ \A j \in 1..arg.nfields :
                                 (keys[j] \in DOMAIN params /\ keys[j] > 1000) =>
                                     params[keys[j]] = [kind |-> "float", bits |-> slots[j]]

(* C36: under the binary dialect, reset sends a frame whose message data   *)
(* is the letters R, E, A, L, L, Y each carried as one 4-byte word (24     *)
(* bytes of message data), and whose command code differs from the command *)
(* code used by get_instr_type (1).                                        *)
C36_ResetFrame ==
    (fn = "reset" /\ protocol = "acoem") =>
        \A n \in 1..Len(sent) :
            LET frame == sent[n]
            IN  /\ Len(frame) = 32
                /\ LengthField(frame) = 24
                /\ \A w \in 1..6 :
                       SubSeq(frame, 3 + 4 * w, 6 + 4 * w) = <<0, 0, 0, REALLY[w]>>
                /\ frame[3] # 1

(* C37: tcpip_comm sends the request on every call whose connection        *)
(* succeeds, whether or not the instrument has sent any unsolicited bytes  *)
(* before the request: once the socket is connected, the step after the    *)
(* connection hands the request to the socket.                             *)
C37_RequestSentAfterConnect ==
    [][(pc = "tcpip_comm" /\ tcp = "clear") =>
           (pc' = "tcpip_comm" /\ tcp' = "send" /\ conns' = conns)]_vars

(* C38: in set_current_operation, a poll whose transport exchange fails    *)
(* (tcpip_comm returns the empty response) does not end the operation: it  *)
(* counts as 'state not yet confirmed' and polling continues; the error    *)
(* value 9 is returned only for a failure that happens before the polling  *)
(* loop starts (building or sending the set command, or an unsupported     *)
(* dialect).                                                               *)
C38_FailedPollKeepsPolling ==
    /\ [](fn = "set_current_operation" =>
            /\ pc # "raised"
            /\ (pc = "idle" /\ ret = py("int", 9) /\ arg.state # 9) =>
                   /\ polls = 0
                   /\ \A i \in 1..Len(sent) : ~IsPollFrame(sent[i])
                   /\ err # "none")
    /\ [][(fn = "set_current_operation" /\ pc = "tcpip_comm") =>
             /\ pc' \in {"tcpip_comm", "returned"}
             /\ (pc' = "returned" /\ err' # err) => comm_ret' = <<>>]_vars
    /\ [][(fn = "set_current_operation" /\ pc = "returned" /\ comm_ret = <<>>) =>
             /\ pc' = "tcpip_comm" /\ tcp' = "connect"
             /\ IsPollFrame(comm_msg')
             /\ ret' = no_result]_vars

C38_Witness ==
    /\ fn = "set_current_operation" /\ protocol = "acoem" /\ arg.state = 2
    /\ pc = "tcpip_comm" /\ tcp = "connect" /\ polls = 2
    /\ err = "timeout" /\ acc = local("list", <<>>)
    /\ Len(sent) = 2

(* every exchange recorded in h ended at a socket call that failed         *)
(* (connection refused, nothing to clear, send failed)                     *)
AllExchangesFailed(h) ==
    /\ h # <<>>
    /\ Cardinality({i \in 1..Len(h) : h[i][1] = "connect"})
           = Cardinality({i \in 1..Len(h) : ~h[i][2]})

(* C39: session construction detects an unreachable instrument in both     *)
(* dialects: whenever every transport exchange of the initial get_id       *)
(* fails, NEPH.__init__ reports the 'Could not communicate with            *)
(* instrument' warning, under the binary dialect and under the legacy      *)
(* dialect alike.                                                          *)
C39_UnreachableInstrumentDetected ==
    [][(init_report = "running" /\ init_report' # "running" /\ fn = "get_id"
            /\ AllExchangesFailed(heard)) =>
           init_report' = "Warning"]_vars

====
